---- MODULE Spec2Model ----
(***************************************************************************)
(* The voice command router of pi-assistant                                *)
(* (services/voice_command_router.py) and the tool registry it dispatches  *)
(* to (mcp/server.py).  Texts and regular expressions are strings; the     *)
(* matcher below is a backtracking matcher with the priority order of      *)
(* Python's re module (greedy and lazy repetition, ordered alternation).   *)
(* Confidences are in tenths: 8 is 0.8, 7 is 0.7, 0 is 0.0.                *)
(***************************************************************************)
EXTENDS Integers, Sequences, FiniteSets, TLC

(***************************************************************************)
(* Characters and str.strip() / str.lower()                                *)
(***************************************************************************)
CharAt(s, i) == SubSeq(s, i, i)

IsSpace(c) == c \in {" ", "\t", "\n", "\r", "\f"}
IsDigit(c) == c \in {"0", "1", "2", "3", "4", "5", "6", "7", "8", "9"}

\* str.lower() of one character: the lower-case form of an upper-case letter
LowerChar(c) ==
    LET UpperChars == "ABCDEFGHIJKLMNOPQRSTUVWXYZ"
        LowerChars == "abcdefghijklmnopqrstuvwxyz"
        at == {k \in 1..26 : CharAt(UpperChars, k) = c}
    IN  IF at = {} THEN c ELSE CharAt(LowerChars, CHOOSE k \in at : TRUE)

RECURSIVE Lower(_)
Lower(s) == IF s = "" THEN "" ELSE LowerChar(Head(s)) \o Lower(Tail(s))

\* str.strip(): without the white space at both ends
RECURSIVE Strip(_)
Strip(s) ==
    IF s # "" /\ IsSpace(Head(s)) THEN Strip(Tail(s))
    ELSE IF s # "" /\ IsSpace(CharAt(s, Len(s))) THEN Strip(SubSeq(s, 1, Len(s) - 1))
    ELSE s

\* Python's  sub in s
Contains(s, sub) ==
    \E i \in 1..(Len(s) - Len(sub) + 1) : SubSeq(s, i, i + Len(sub) - 1) = sub

(***************************************************************************)
(* Python values that change type at run time (tool results, parameters,   *)
(* the JSON the chat collaborator returns) are tagged                      *)
(***************************************************************************)
None == "<None>"            \* an absent str (Optional[str])

PyNone    == [ty |-> "none"]
PyStr(s)  == [ty |-> "str",  v |-> s]
PyNum(n)  == [ty |-> "num",  v |-> n]
PyBool(b) == [ty |-> "bool", v |-> b]
PyDict(f) == [ty |-> "dict", v |-> f]
PyList(q) == [ty |-> "list", v |-> q]

\* bool(v)
Truthy(v) ==
    CASE v.ty = "none" -> FALSE
      [] v.ty = "str"  -> v.v # ""
      [] v.ty = "num"  -> v.v # 0
      [] v.ty = "bool" -> v.v
      [] v.ty = "dict" -> DOMAIN v.v # {}
      [] v.ty = "list" -> Len(v.v) > 0

\* type(v).__name__
TypeName(v) ==
    CASE v.ty = "none" -> "NoneType"
      [] v.ty = "str"  -> "str"
      [] v.ty = "num"  -> "int"
      [] v.ty = "bool" -> "bool"
      [] v.ty = "dict" -> "dict"
      [] v.ty = "list" -> "list"

\* d.get(k, default) on a dict d
DictGet(d, k, default) == IF k \in DOMAIN d.v THEN d.v[k] ELSE default

DigitStr(d) == CharAt("0123456789", d + 1)
DigitVal(c) == (CHOOSE k \in 1..10 : CharAt("0123456789", k) = c) - 1

\* str(n) for an integer n >= 0
RECURSIVE IntToStr(_)
IntToStr(n) == IF n < 10 THEN DigitStr(n) ELSE IntToStr(n \div 10) \o DigitStr(n % 10)

\* float(s), and int(s), for a string of digits
RECURSIVE ToFloat(_)
ToFloat(s) ==
    IF s = "" THEN 0 ELSE 10 * ToFloat(SubSeq(s, 1, Len(s) - 1)) + DigitVal(CharAt(s, Len(s)))

\* the text an f-string puts for a scalar value
FStr(v) ==
    CASE v.ty = "str"  -> v.v
      [] v.ty = "num"  -> IntToStr(v.v)
      [] v.ty = "none" -> "None"
      [] v.ty = "bool" -> IF v.v THEN "True" ELSE "False"

(***************************************************************************)
(* Regular expressions as syntax trees (built by Compile below), and       *)
(* re.search                                                               *)
(***************************************************************************)
\* the value of a group that took no part in the match (Python's None)
NoGroup == None

InClass(cls, c) ==
    CASE cls = "space" -> IsSpace(c)
      [] cls = "digit" -> IsDigit(c)
      [] cls = "any"   -> c # "\n"

\* the number of consecutive characters of class cls from position i on
RECURSIVE Run(_, _, _)
Run(cls, s, i) ==
    IF i <= Len(s) /\ InClass(cls, CharAt(s, i)) THEN 1 + Run(cls, s, i + 1) ELSE 0

\* re.IGNORECASE comparison of the literal w with s at position i, from the
\* k-th character of w on
RECURSIVE EqIgnoreCase(_, _, _, _)
EqIgnoreCase(w, s, i, k) ==
    \/ k > Len(w)
    \/ /\ LowerChar(CharAt(w, k)) = LowerChar(CharAt(s, i + k - 1))
       /\ EqIgnoreCase(w, s, i, k + 1)

LitAt(w, s, i) == i + Len(w) - 1 <= Len(s) /\ EqIgnoreCase(w, s, i, 1)

\* Match(r, s, i, caps): the ways r matches s from position i, in the order
\* the backtracking matcher tries them; each is the position after the match
\* and the groups captured so far.
RECURSIVE Match(_, _, _, _)
RECURSIVE MatchCat(_, _, _, _, _)
RECURSIVE MatchAlt(_, _, _, _, _)
RECURSIVE Continue(_, _, _, _, _)

Match(r, s, i, caps) ==
    CASE r.t = "lit" ->
            IF LitAt(r.w, s, i) THEN <<[pos |-> i + Len(r.w), caps |-> caps]>> ELSE <<>>
      [] r.t = "chr" ->
            IF i <= Len(s) /\ InClass(r.cls, CharAt(s, i))
            THEN <<[pos |-> i + 1, caps |-> caps]>> ELSE <<>>
      [] r.t = "rep" ->
            LET n == Run(r.cls, s, i)
            IN  IF n < r.min THEN <<>>
                ELSE [k \in 1..(n - r.min + 1) |->
                         [pos  |-> IF r.lazy THEN i + r.min + (k - 1) ELSE i + n - (k - 1),
                          caps |-> caps]]
      [] r.t = "opt" -> Match(r.r, s, i, caps) \o <<[pos |-> i, caps |-> caps]>>
      [] r.t = "grp" ->
            LET in == Match(r.r, s, i, caps)
            IN  [k \in 1..Len(in) |->
                    [pos  |-> in[k].pos,
                     caps |-> [in[k].caps EXCEPT ![r.k] = SubSeq(s, i, in[k].pos - 1)]]]
      [] r.t = "alt" -> MatchAlt(r.rs, 1, s, i, caps)
      [] r.t = "cat" -> MatchCat(r.rs, 1, s, i, caps)

MatchAlt(rs, k, s, i, caps) ==
    IF k > Len(rs) THEN <<>>
    ELSE Match(rs[k], s, i, caps) \o MatchAlt(rs, k + 1, s, i, caps)

\* continue the concatenation rs from element k after each way in heads
Continue(heads, rs, k, s, j) ==
    IF j > Len(heads) THEN <<>>
    ELSE MatchCat(rs, k, s, heads[j].pos, heads[j].caps) \o Continue(heads, rs, k, s, j + 1)

MatchCat(rs, k, s, i, caps) ==
    IF k > Len(rs) THEN <<[pos |-> i, caps |-> caps]>>
    ELSE Continue(Match(rs[k], s, i, caps), rs, k + 1, s, 1)

\* re.search(pattern, text, re.IGNORECASE): the leftmost match, as
\* [found, groups]; groups is match.groups()
RECURSIVE SearchFrom(_, _, _, _)
SearchFrom(r, n, s, i) ==
    IF i > Len(s) + 1 THEN [found |-> FALSE, groups |-> <<>>]
    ELSE LET ms == Match(r, s, i, [g \in 1..n |-> NoGroup])
         IN  IF ms # <<>> THEN [found |-> TRUE, groups |-> ms[1].caps]
             ELSE SearchFrom(r, n, s, i + 1)

ReSearch(re, s) == SearchFrom(re.r, re.n, s, 1)

(***************************************************************************)
(* The pattern table (_init_patterns) and the compiled form of each        *)
(* pattern string                                                          *)
(***************************************************************************)
SHOPPING        == "shopping"
HOME_AUTOMATION == "home_automation"
DUTCH_LEARNING  == "dutch_learning"
SYSTEM_CONTROL  == "system_control"
CAMERA          == "camera"
INFORMATION     == "information"
UNKNOWN         == "unknown"

\* class CommandIntent: the values of the enumeration
CommandIntent ==
    {SHOPPING, HOME_AUTOMATION, DUTCH_LEARNING, SYSTEM_CONTROL, CAMERA, INFORMATION, UNKNOWN}

ShoppingPatterns ==
    << "(?:find|search|look for|show me|get me)\\s+(?:a|an|some)?\\s*(.+?)(?:\\s+(?:under|for|around|about)\\s+\\$?(\\d+))?",
       "(?:buy|purchase|order)\\s+(.+)",
       "(?:what|show)\\s+(?:are|is)?\\s*(?:the)?\\s*(?:price|cost|prices)\\s+(?:of|for)\\s+(.+)",
       "(?:compare|check)\\s+prices?\\s+(?:for|of)\\s+(.+)",
       "(?:add|put)\\s+(.+)\\s+(?:to|in)\\s+(?:my\\s+)?cart",
       "(?:show|check|view)\\s+(?:my\\s+)?(?:cart|basket|shopping cart)" >>

HomeAutomationPatterns ==
    << "(?:turn|switch)\\s+(on|off)\\s+(?:the\\s+)?(.+)",
       "(?:set|change)\\s+(?:the\\s+)?(.+?)\\s+to\\s+(.+)",
       "(?:dim|brighten)\\s+(?:the\\s+)?(.+)",
       "(?:what(?:'s| is))\\s+(?:the\\s+)?(.+?)\\s+(?:temperature|status)",
       "(?:lock|unlock)\\s+(?:the\\s+)?(.+)" >>

DutchLearningPatterns ==
    << "(?:how do you say|what is|translate)\\s+(.+?)\\s+(?:in dutch|to dutch)",
       "(?:teach me|show me|tell me)\\s+(?:the\\s+)?dutch\\s+(?:word|phrase)\\s+for\\s+(.+)",
       "(?:practice|learn|study)\\s+(.+)",
       "(?:save|add)\\s+(?:the\\s+)?(?:word|vocabulary)\\s+(.+)",
       "(?:show|view|list)\\s+(?:my\\s+)?vocabulary" >>

InformationPatterns ==
    << "(?:what(?:'s| is)|show|list|tell me)\\s+(?:on\\s+)?(?:my\\s+)?(?:calendar|schedule|events?)\\s*(?:today|tomorrow|this week)?",
       "(?:do i have|what(?:'s| is)|any)\\s+(?:any\\s+)?(?:meetings?|events?|appointments?)\\s+(?:today|tomorrow|this week)",
       "(?:add|create|schedule|make)\\s+(?:a\\s+)?(?:meeting|event|appointment)\\s+(.+)",
       "(?:schedule|set up|create)\\s+(.+?)\\s+(?:for|on|at)\\s+(.+)",
       "(?:cancel|delete|remove)\\s+(?:my\\s+)?(?:meeting|event|appointment)\\s+(.+)",
       "(?:when is|what time is)\\s+(?:my\\s+)?(.+)" >>

CameraPatterns ==
    << "(?:take|capture|snap)\\s+(?:a\\s+)?(?:picture|photo|image)",
       "(?:show|display)\\s+(?:the\\s+)?camera",
       "(?:what|identify|recognize)\\s+(?:is\\s+)?(?:this|that)" >>

SystemControlPatterns ==
    << "(?:what(?:'s| is))\\s+(?:the\\s+)?(?:time|date)",
       "(?:what(?:'s| is))\\s+(?:the\\s+)?weather",
       "(?:system|assistant)\\s+(status|info|information)",
       "(?:stop|quit|exit|goodbye|bye)" >>

\* the patterns example_custom_patterns registers
CustomShoppingPattern == "I need (?:a|an|some)\\s+(.+)"
CustomHomePattern     == "(?:activate|deactivate)\\s+(.+)"

\* the patterns of PersonalAssistantModule._extract_time, and the pattern of
\* _parse_time for "in N hours"
ExtractTimePatterns == << "(\\d{1,2}):(\\d{2})\\s*(am|pm)?", "(\\d{1,2})\\s*(am|pm)" >>
InPattern == "in (\\d+)\\s*(hour|minute|day)"

\* the dict built by _init_patterns, in insertion order
InitPatterns ==
    << [intent |-> SHOPPING,        patterns |-> ShoppingPatterns],
       [intent |-> HOME_AUTOMATION, patterns |-> HomeAutomationPatterns],
       [intent |-> DUTCH_LEARNING,  patterns |-> DutchLearningPatterns],
       [intent |-> INFORMATION,     patterns |-> InformationPatterns],
       [intent |-> CAMERA,          patterns |-> CameraPatterns],
       [intent |-> SYSTEM_CONTROL,  patterns |-> SystemControlPatterns] >>

\* re's compilation of a pattern string: the syntax tree r and the number
\* of capturing groups n
Compile(p) ==
    LET \* the nodes of a syntax tree
        Lit(w)            == [t |-> "lit", w |-> w]
        Alt(rs)           == [t |-> "alt", rs |-> rs]
        Cat(rs)           == [t |-> "cat", rs |-> rs]
        Opt(r)            == [t |-> "opt", r |-> r]
        Rep(cls, min, lz) == [t |-> "rep", cls |-> cls, min |-> min, lazy |-> lz]
        Grp(k, r)         == [t |-> "grp", k |-> k, r |-> r]
        D      == [t |-> "chr", cls |-> "digit"]               \* \d
        S1     == Rep("space", 1, FALSE)                       \* \s+
        S0     == Rep("space", 0, FALSE)                       \* \s*
        AnyG   == Rep("any", 1, FALSE)                         \* .+
        AnyL   == Rep("any", 1, TRUE)                          \* .+?
        Digits == Rep("digit", 1, FALSE)                       \* \d+
        Words(ws) == Alt([k \in 1..Len(ws) |-> Lit(ws[k])])    \* (?:w1|w2|...)
        OptThe == Opt(Cat(<<Lit("the"), S1>>))                 \* (?:the\s+)?
        OptMy  == Opt(Cat(<<Lit("my"), S1>>))                  \* (?:my\s+)?
        Whats  == Cat(<<Lit("what"), Words(<<"'s", " is">>)>>) \* (?:what(?:'s| is))
        Plural(w) == Cat(<<Lit(w), Opt(Lit("s"))>>)            \* ws?
    IN  CASE p = ShoppingPatterns[1] ->
                [n |-> 2, r |-> Cat(<<Words(<<"find", "search", "look for", "show me", "get me">>), S1,
                                      Opt(Words(<<"a", "an", "some">>)), S0, Grp(1, AnyL),
                                      Opt(Cat(<<S1, Words(<<"under", "for", "around", "about">>), S1,
                                                Opt(Lit("$")), Grp(2, Digits)>>))>>)]
          [] p = ShoppingPatterns[2] ->
                [n |-> 1, r |-> Cat(<<Words(<<"buy", "purchase", "order">>), S1, Grp(1, AnyG)>>)]
          [] p = ShoppingPatterns[3] ->
                [n |-> 1, r |-> Cat(<<Words(<<"what", "show">>), S1, Opt(Words(<<"are", "is">>)), S0,
                                      Opt(Lit("the")), S0, Words(<<"price", "cost", "prices">>), S1,
                                      Words(<<"of", "for">>), S1, Grp(1, AnyG)>>)]
          [] p = ShoppingPatterns[4] ->
                [n |-> 1, r |-> Cat(<<Words(<<"compare", "check">>), S1, Plural("price"), S1,
                                      Words(<<"for", "of">>), S1, Grp(1, AnyG)>>)]
          [] p = ShoppingPatterns[5] ->
                [n |-> 1, r |-> Cat(<<Words(<<"add", "put">>), S1, Grp(1, AnyG), S1,
                                      Words(<<"to", "in">>), S1, OptMy, Lit("cart")>>)]
          [] p = ShoppingPatterns[6] ->
                [n |-> 0, r |-> Cat(<<Words(<<"show", "check", "view">>), S1, OptMy,
                                      Words(<<"cart", "basket", "shopping cart">>)>>)]
          [] p = HomeAutomationPatterns[1] ->
                [n |-> 2, r |-> Cat(<<Words(<<"turn", "switch">>), S1, Grp(1, Words(<<"on", "off">>)), S1,
                                      OptThe, Grp(2, AnyG)>>)]
          [] p = HomeAutomationPatterns[2] ->
                [n |-> 2, r |-> Cat(<<Words(<<"set", "change">>), S1, OptThe, Grp(1, AnyL), S1,
                                      Lit("to"), S1, Grp(2, AnyG)>>)]
          [] p = HomeAutomationPatterns[3] ->
                [n |-> 1, r |-> Cat(<<Words(<<"dim", "brighten">>), S1, OptThe, Grp(1, AnyG)>>)]
          [] p = HomeAutomationPatterns[4] ->
                [n |-> 1, r |-> Cat(<<Whats, S1, OptThe, Grp(1, AnyL), S1,
                                      Words(<<"temperature", "status">>)>>)]
          [] p = HomeAutomationPatterns[5] ->
                [n |-> 1, r |-> Cat(<<Words(<<"lock", "unlock">>), S1, OptThe, Grp(1, AnyG)>>)]
          [] p = DutchLearningPatterns[1] ->
                [n |-> 1, r |-> Cat(<<Words(<<"how do you say", "what is", "translate">>), S1,
                                      Grp(1, AnyL), S1, Words(<<"in dutch", "to dutch">>)>>)]
          [] p = DutchLearningPatterns[2] ->
                [n |-> 1, r |-> Cat(<<Words(<<"teach me", "show me", "tell me">>), S1, OptThe,
                                      Lit("dutch"), S1, Words(<<"word", "phrase">>), S1, Lit("for"), S1,
                                      Grp(1, AnyG)>>)]
          [] p = DutchLearningPatterns[3] ->
                [n |-> 1, r |-> Cat(<<Words(<<"practice", "learn", "study">>), S1, Grp(1, AnyG)>>)]
          [] p = DutchLearningPatterns[4] ->
                [n |-> 1, r |-> Cat(<<Words(<<"save", "add">>), S1, OptThe,
                                      Words(<<"word", "vocabulary">>), S1, Grp(1, AnyG)>>)]
          [] p = DutchLearningPatterns[5] ->
                [n |-> 0, r |-> Cat(<<Words(<<"show", "view", "list">>), S1, OptMy, Lit("vocabulary")>>)]
          [] p = InformationPatterns[1] ->
                [n |-> 0, r |-> Cat(<<Alt(<<Whats, Lit("show"), Lit("list"), Lit("tell me")>>), S1,
                                      Opt(Cat(<<Lit("on"), S1>>)), OptMy,
                                      Alt(<<Lit("calendar"), Lit("schedule"), Plural("event")>>), S0,
                                      Opt(Words(<<"today", "tomorrow", "this week">>))>>)]
          [] p = InformationPatterns[2] ->
                [n |-> 0, r |-> Cat(<<Alt(<<Lit("do i have"), Whats, Lit("any")>>), S1,
                                      Opt(Cat(<<Lit("any"), S1>>)),
                                      Alt(<<Plural("meeting"), Plural("event"), Plural("appointment")>>),
                                      S1, Words(<<"today", "tomorrow", "this week">>)>>)]
          [] p = InformationPatterns[3] ->
                [n |-> 1, r |-> Cat(<<Words(<<"add", "create", "schedule", "make">>), S1,
                                      Opt(Cat(<<Lit("a"), S1>>)),
                                      Words(<<"meeting", "event", "appointment">>), S1, Grp(1, AnyG)>>)]
          [] p = InformationPatterns[4] ->
                [n |-> 2, r |-> Cat(<<Words(<<"schedule", "set up", "create">>), S1, Grp(1, AnyL), S1,
                                      Words(<<"for", "on", "at">>), S1, Grp(2, AnyG)>>)]
          [] p = InformationPatterns[5] ->
                [n |-> 1, r |-> Cat(<<Words(<<"cancel", "delete", "remove">>), S1, OptMy,
                                      Words(<<"meeting", "event", "appointment">>), S1, Grp(1, AnyG)>>)]
          [] p = InformationPatterns[6] ->
                [n |-> 1, r |-> Cat(<<Words(<<"when is", "what time is">>), S1, OptMy, Grp(1, AnyG)>>)]
          [] p = CameraPatterns[1] ->
                [n |-> 0, r |-> Cat(<<Words(<<"take", "capture", "snap">>), S1,
                                      Opt(Cat(<<Lit("a"), S1>>)),
                                      Words(<<"picture", "photo", "image">>)>>)]
          [] p = CameraPatterns[2] ->
                [n |-> 0, r |-> Cat(<<Words(<<"show", "display">>), S1, OptThe, Lit("camera")>>)]
          [] p = CameraPatterns[3] ->
                [n |-> 0, r |-> Cat(<<Words(<<"what", "identify", "recognize">>), S1,
                                      Opt(Cat(<<Lit("is"), S1>>)), Words(<<"this", "that">>)>>)]
          [] p = SystemControlPatterns[1] ->
                [n |-> 0, r |-> Cat(<<Whats, S1, OptThe, Words(<<"time", "date">>)>>)]
          [] p = SystemControlPatterns[2] ->
                [n |-> 0, r |-> Cat(<<Whats, S1, OptThe, Lit("weather")>>)]
          [] p = SystemControlPatterns[3] ->
                [n |-> 1, r |-> Cat(<<Words(<<"system", "assistant">>), S1,
                                      Grp(1, Words(<<"status", "info", "information">>))>>)]
          [] p = SystemControlPatterns[4] ->
                [n |-> 0, r |-> Words(<<"stop", "quit", "exit", "goodbye", "bye">>)]
          [] p = CustomShoppingPattern ->
                [n |-> 1, r |-> Cat(<<Lit("I need "), Words(<<"a", "an", "some">>), S1, Grp(1, AnyG)>>)]
          [] p = CustomHomePattern ->
                [n |-> 1, r |-> Cat(<<Words(<<"activate", "deactivate">>), S1, Grp(1, AnyG)>>)]
          [] p = ExtractTimePatterns[1] ->
                [n |-> 3, r |-> Cat(<<Grp(1, Cat(<<D, Opt(D)>>)), Lit(":"), Grp(2, Cat(<<D, D>>)), S0,
                                      Opt(Grp(3, Words(<<"am", "pm">>)))>>)]
          [] p = ExtractTimePatterns[2] ->
                [n |-> 2, r |-> Cat(<<Grp(1, Cat(<<D, Opt(D)>>)), S0, Grp(2, Words(<<"am", "pm">>))>>)]
          [] p = InPattern ->
                [n |-> 2, r |-> Cat(<<Lit("in "), Grp(1, Digits), S0,
                                      Grp(2, Words(<<"hour", "minute", "day">>))>>)]

(***************************************************************************)
(* The utterances of the model, and re.search tabulated over them         *)
(***************************************************************************)
\* the utterances given to the router used as a whole
Utterances ==
    { "Turn on the lights",                    \* home_automation, control_device
      "What's Dutch for hello",                \* no pattern matches
      "show me the dutch word for cat",        \* patterns of two intents match
      "what's the time",                       \* system_control: no agent
      "I need a new phone" }                   \* matches the custom pattern only

\* the utterances given to parse_command alone
Sentences ==
    Utterances \cup
    { "Find me a laptop under 1000 dollars", "What's on my calendar", "Take a photo",
      "Schedule a meeting tomorrow", "", "   ", "add milk to my cart", "show my cart",
      "what is the time", "stop", "translate cat to dutch",
      "how do you say keyboard in dutch", "activate security system",
      "  I need a new phone ", "hello there", "practice verbs", "lock the door",
      "compare prices for tv", "system info", "take a picture of it", "dim lights",
      "I need a  ",                            \* matches the custom pattern until trimmed
      "find me a keyboard under $50", "deactivate alarm",
      "create a meeting with bob" }            \* "meeting", not "meetings"

NormTexts == {Lower(Strip(u)) : u \in Sentences}

\* the texts re.search is tabulated for
Texts == Sentences \cup NormTexts

KnownPatterns ==
    UNION {{InitPatterns[i].patterns[k] : k \in 1..Len(InitPatterns[i].patterns)} :
              i \in 1..Len(InitPatterns)}
    \cup {CustomShoppingPattern, CustomHomePattern}

\* a function as a table of its values (the comparison makes the model
\* checker compute the values once instead of at every application)
Tabulated(f) == IF f = f THEN f ELSE f

\* text.strip().lower() of the sentences
NormTable == Tabulated([u \in Sentences |-> Lower(Strip(u))])

\* ReSearch(Compile(p), x) for the patterns and texts above
SearchTable ==
    Tabulated([px \in KnownPatterns \X Texts |-> ReSearch(Compile(px[1]), px[2])])

\* re.search(pattern, text, re.IGNORECASE)
Search(p, x) ==
    IF p \in KnownPatterns /\ x \in Texts THEN SearchTable[<<p, x>>]
    ELSE ReSearch(Compile(p), x)

(***************************************************************************)
(* VoiceCommandRouter._pattern_match                                       *)
(***************************************************************************)
PATTERN_CONFIDENCE == 8     \* confidence = 0.8
AI_THRESHOLD       == 7     \* confidence < 0.7

\* {f"group_{i}": g for i, g in enumerate(match.groups()) if g}
Entities(groups) ==
    LET GroupKey(i) == "group_" \o IntToStr(i)
        keep == {i \in 0..(Len(groups) - 1) : groups[i + 1] # NoGroup /\ groups[i + 1] # ""}
    IN  [k \in {GroupKey(i) : i \in keep} |->
            PyStr(groups[(CHOOSE i \in keep : GroupKey(i) = k) + 1])]

EmptyDict == [k \in {} |-> ""]

\* a later match also replaces the best one
Better_OrEqual(confidence, best_confidence) == confidence >= best_confidence

\* if confidence > best_confidence
Better(confidence, best_confidence) == confidence > best_confidence

\* the double loop over command_patterns.items() and each pattern list,
\* from entry e, pattern k, with the best match so far
RECURSIVE PatternLoop(_, _, _, _, _)
PatternLoop(table, text, e, k, best) ==
    IF e > Len(table) THEN best
    ELSE IF k > Len(table[e].patterns) THEN PatternLoop(table, text, e + 1, 1, best)
    ELSE LET m == Search(table[e].patterns[k], text)
             next == IF m.found /\ Better(PATTERN_CONFIDENCE, best.confidence)
                     THEN [intent     |-> table[e].intent,
                           entities   |-> PyDict(Entities(m.groups)),
                           confidence |-> PATTERN_CONFIDENCE]
                     ELSE best
         IN  PatternLoop(table, text, e, k + 1, next)

\* the entries of the table are visited from the last to the first
PatternMatch_LastEntryFirst(table, text) ==
    PatternLoop([e \in 1..Len(table) |-> table[Len(table) + 1 - e]], text, 1, 1,
                [intent |-> UNKNOWN, entities |-> PyDict(EmptyDict), confidence |-> 0])

PatternMatch(table, text) ==
    PatternLoop(table, text, 1, 1,
                [intent |-> UNKNOWN, entities |-> PyDict(EmptyDict), confidence |-> 0])

(***************************************************************************)
(* VoiceCommand, CommandResponse and VoiceCommandRouter._map_to_agent      *)
(***************************************************************************)
VoiceCommand(raw_text, intent, confidence, entities) ==
    [raw_text |-> raw_text, intent |-> intent, confidence |-> confidence,
     entities |-> entities, agent |-> None, action |-> None, parameters |-> PyNone]

CommandResponse(success, message, data) ==
    [success |-> success, message |-> message, data |-> data, speak |-> TRUE]

MapShopping(c) ==
    LET raw == c.raw_text
        c1  == [c EXCEPT !.agent = "ecommerce"]
    IN  IF "group_0" \notin DOMAIN c.entities.v THEN c1
        ELSE LET product == c.entities.v["group_0"]
                 price   == DictGet(c.entities, "group_1", PyNone)
             IN  IF Contains(raw, "compare") \/ Contains(raw, "price")
                 THEN [c1 EXCEPT !.action = "price_compare",
                                 !.parameters = PyDict("product_name" :> product)]
                 ELSE IF Contains(raw, "cart")
                 THEN [c1 EXCEPT !.action = IF Contains(raw, "show") \/ Contains(raw, "view")
                                            THEN "view_cart" ELSE "add_to_cart",
                                 !.parameters = PyDict("product" :> product)]
                 ELSE [c1 EXCEPT !.action = "product_search",
                                 !.parameters =
                                     PyDict("query" :> product @@
                                            "max_price" :> IF Truthy(price)
                                                           THEN PyNum(ToFloat(price.v))
                                                           ELSE PyNone)]

MapDutchLearning(c) ==
    LET raw == c.raw_text
        c1  == [c EXCEPT !.agent = "dutch_learning"]
    IN  IF Contains(raw, "translate") \/ Contains(raw, "how do you say")
        THEN [c1 EXCEPT !.action = "dutch_vocabulary_search",
                        !.parameters = PyDict("query" :> DictGet(c.entities, "group_0", PyStr("")))]
        ELSE IF Contains(raw, "vocabulary")
        THEN [c1 EXCEPT !.action = "dutch_vocabulary_review",
                        !.parameters = PyDict("count" :> PyNum(10))]
        ELSE c1

MapInformation(c) ==
    LET raw == c.raw_text
        c1  == [c EXCEPT !.agent = "personal_assistant"]
    IN  IF ~(Contains(raw, "calendar") \/ Contains(raw, "schedule")
             \/ Contains(raw, "events") \/ Contains(raw, "meetings"))
        THEN c1
        ELSE IF Contains(raw, "add") \/ Contains(raw, "create") \/ Contains(raw, "schedule")
        THEN [c1 EXCEPT !.action = "calendar_create_event",
                        !.parameters =
                            PyDict("title" :> DictGet(c.entities, "group_0", PyStr("")) @@
                                   "start_time" :> DictGet(c.entities, "group_1",
                                                           PyStr("tomorrow at 2pm")) @@
                                   "duration_minutes" :> PyNum(60))]
        ELSE [c1 EXCEPT !.action = "calendar_list_events",
                        !.parameters =
                            PyDict("timeframe" :>
                                   PyStr(IF Contains(raw, "today") THEN "today"
                                         ELSE IF Contains(raw, "tomorrow") THEN "tomorrow"
                                         ELSE IF Contains(raw, "week") THEN "week"
                                         ELSE "today"))]

\* every intent without a mapping is handed to a default agent
MapToAgent_DefaultAgent(c) ==
    IF c.intent \in {SHOPPING, DUTCH_LEARNING, INFORMATION, CAMERA, HOME_AUTOMATION}
    THEN c ELSE [c EXCEPT !.agent = "personal_assistant"]

MapToAgent(c) ==
    CASE c.intent = SHOPPING       -> MapShopping(c)
      [] c.intent = DUTCH_LEARNING -> MapDutchLearning(c)
      [] c.intent = INFORMATION    -> MapInformation(c)
      [] c.intent = CAMERA ->
            [c EXCEPT !.agent = "personal_assistant", !.action = "camera_capture",
                      !.parameters = PyDict(EmptyDict)]
      [] c.intent = HOME_AUTOMATION ->
            [c EXCEPT !.agent = "home_automation", !.action = "control_device",
                      !.parameters =
                          PyDict("device" :> DictGet(c.entities, "group_1", PyStr("")) @@
                                 "state"  :> DictGet(c.entities, "group_0", PyStr("")))]
      [] OTHER -> c

(***************************************************************************)
(* VoiceCommandRouter._format_response.  A call either returns a value or  *)
(* raises; Raise carries str(e).                                           *)
(***************************************************************************)
Return(v) == [raised |-> FALSE, value |-> v]
Raise(e)  == [raised |-> TRUE,  value |-> e]

KeyError(k)          == Raise("'" \o k \o "'")
AttributeError(v, a) == Raise("'" \o TypeName(v) \o "' object has no attribute '" \o a \o "'")

\* _format_response(command, result): the message, or the exception raised
FormatResponse(command, result) ==
    LET
        \* f-string over the items d[k] of a dict d: KeyError on the first key
        \* that is missing, else the text built by the caller
        Missing(d, ks) == {k \in ks : k \notin DOMAIN d.v}
        FirstMissing(d, order) ==
            order[CHOOSE i \in 1..Len(order) :
                     /\ order[i] \notin DOMAIN d.v
                     /\ \A j \in 1..(i - 1) : order[j] \in DOMAIN d.v]

        FormatProductSearch ==
            LET products == DictGet(result, "products", PyList(<<>>))
            IN  IF ~Truthy(products)
                THEN Return("I couldn't find any products matching that description.")
                ELSE LET product == products.v[1]
                     IN  IF Missing(product, {"name", "price"}) # {}
                         THEN KeyError(FirstMissing(product, <<"name", "price">>))
                         ELSE Return("I found " \o FStr(product.v["name"]) \o " for $"
                                     \o FStr(product.v["price"])
                                     \o ". Would you like to hear more options?")

        FormatPriceCompare ==
            LET comparisons == DictGet(result, "comparisons", PyList(<<>>))
            IN  IF ~Truthy(comparisons) THEN Return("I couldn't compare prices for that product.")
                ELSE LET best == DictGet(result, "best_deal", comparisons.v[1])
                     IN  IF Missing(best, {"total_price", "platform"}) # {}
                         THEN KeyError(FirstMissing(best, <<"total_price", "platform">>))
                         ELSE Return("The best price is $" \o FStr(best.v["total_price"]) \o " on "
                                     \o FStr(best.v["platform"]) \o ".")

        FormatViewCart ==
            LET items == DictGet(result, "items", PyList(<<>>))
            IN  IF Truthy(items)
                THEN Return("You have " \o IntToStr(Len(items.v)) \o " items in your cart.")
                ELSE Return("Your cart is empty.")

        FormatVocabularySearch ==
            LET results == DictGet(result, "results", PyList(<<>>))
            IN  IF ~Truthy(results) THEN Return("I couldn't find that in the vocabulary.")
                ELSE LET word == results.v[1]
                     IN  IF "dutch" \notin DOMAIN word.v THEN KeyError("dutch")
                         ELSE Return("In Dutch, that's '" \o FStr(word.v["dutch"]) \o "'. "
                                     \o FStr(DictGet(word, "article", PyStr(""))) \o " "
                                     \o FStr(word.v["dutch"]) \o ".")

        \* ", ".join(f"{e['summary']} at {e['start']}" for e in events), events
        \* without a missing field
        RECURSIVE JoinEvents(_)
        JoinEvents(events) ==
            IF events = <<>> THEN ""
            ELSE FStr(events[1].v["summary"]) \o " at " \o FStr(events[1].v["start"])
                 \o (IF Len(events) > 1 THEN ", " ELSE "") \o JoinEvents(Tail(events))

        FormatListEvents ==
            LET events    == DictGet(result, "events", PyList(<<>>))
                timeframe == FStr(DictGet(result, "timeframe", PyStr("")))
            IN  IF ~Truthy(events) THEN Return("You have no events " \o timeframe \o ".")
                ELSE LET first == SubSeq(events.v, 1, IF Len(events.v) < 3 THEN Len(events.v) ELSE 3)
                         bad   == {i \in 1..Len(first) : Missing(first[i], {"summary", "start"}) # {}}
                     IN  IF bad # {}
                         THEN KeyError(FirstMissing(first[CHOOSE i \in bad : \A j \in bad : i <= j],
                                                    <<"summary", "start">>))
                         ELSE IF Len(events.v) > 3
                         THEN Return("You have " \o IntToStr(Len(events.v)) \o " events " \o timeframe
                                     \o ". Here are the first few: " \o JoinEvents(first))
                         ELSE Return("You have " \o IntToStr(Len(events.v)) \o " event(s) " \o timeframe
                                     \o ": " \o JoinEvents(first))

        FormatCreateEvent ==
            IF Truthy(DictGet(result, "success", PyNone))
            THEN LET event == DictGet(result, "event", PyDict(EmptyDict))
                 IN  Return("I've created the event: "
                            \o FStr(DictGet(event, "summary", PyStr("your event"))))
            ELSE Return("Sorry, I couldn't create the event: "
                        \o FStr(DictGet(result, "error", PyStr("unknown error"))))
    IN
    IF result.ty # "dict" THEN AttributeError(result, "get")
    ELSE CASE command.intent = SHOPPING /\ command.action = "product_search" ->
                 FormatProductSearch
           [] command.intent = SHOPPING /\ command.action = "price_compare" ->
                 FormatPriceCompare
           [] command.intent = SHOPPING /\ command.action = "view_cart" ->
                 FormatViewCart
           [] command.intent = DUTCH_LEARNING /\ command.action = "dutch_vocabulary_search" ->
                 FormatVocabularySearch
           [] command.intent = INFORMATION /\ command.action = "calendar_list_events" ->
                 FormatListEvents
           [] command.intent = INFORMATION /\ command.action = "calendar_create_event" ->
                 FormatCreateEvent
           [] command.intent = CAMERA ->
                 IF Truthy(DictGet(result, "success", PyNone))
                 THEN Return("I've taken a picture.")
                 ELSE Return("Sorry, I couldn't take a picture.")
           [] OTHER ->
                 Return(FStr(DictGet(result, "message", PyStr("Command executed successfully."))))

(***************************************************************************)
(* PersonalAssistantModule._parse_time and _extract_time                   *)
(* (mcp/modules/personal_assistant.py).  A datetime is the ordinal of its  *)
(* day (date.toordinal()) with its hour, minute, second and microsecond.   *)
(* Both functions search lower-cased text for lower-case patterns, so the  *)
(* matcher's indifference to case changes nothing.                         *)
(***************************************************************************)
\* the hours and minutes are added within the day: no carry into the date
PlusDelta_NoCarry(dt, days, hours, minutes) ==
    LET total == dt.hour * 60 + dt.minute + hours * 60 + minutes
    IN  Return([dt EXCEPT !.ord = dt.ord + days, !.hour = (total % 1440) \div 60,
                          !.minute = total % 60])

\* dt + timedelta(days=days, hours=hours, minutes=minutes), with the
\* OverflowError of a date after datetime.max (9999-12-31)
PlusDelta(dt, days, hours, minutes) ==
    LET MaxOrdinal == 3652059
        total      == dt.hour * 60 + dt.minute + hours * 60 + minutes
        ord        == dt.ord + days + total \div 1440
    IN  IF ord > MaxOrdinal THEN Raise("date value out of range")
        ELSE Return([dt EXCEPT !.ord = ord, !.hour = (total % 1440) \div 60,
                               !.minute = total % 60])

\* datetime.fromisoformat(s) for s of the form YYYY-MM-DD, alone or followed
\* by one character and HH:MM or HH:MM:SS; ValueError for any other s
FromIsoFormat(s) ==
    LET Num(i, j) == ToFloat(SubSeq(s, i, j))
        DigitsAt(ps) == \A i \in ps : IsDigit(CharAt(s, i))
        shape == /\ Len(s) \in {10, 16, 19}
                 /\ DigitsAt({1, 2, 3, 4, 6, 7, 9, 10})
                 /\ CharAt(s, 5) = "-" /\ CharAt(s, 8) = "-"
                 /\ Len(s) > 10 => (DigitsAt({12, 13, 15, 16}) /\ CharAt(s, 14) = ":")
                 /\ Len(s) > 16 => (DigitsAt({18, 19}) /\ CharAt(s, 17) = ":")
        year   == Num(1, 4)
        month  == Num(6, 7)
        day    == Num(9, 10)
        hour   == IF Len(s) > 10 THEN Num(12, 13) ELSE 0
        minute == IF Len(s) > 10 THEN Num(15, 16) ELSE 0
        second == IF Len(s) > 16 THEN Num(18, 19) ELSE 0
        leap   == year % 4 = 0 /\ (year % 100 # 0 \/ year % 400 = 0)
        DaysIn(m) == CASE m = 2 -> IF leap THEN 29 ELSE 28
                       [] m \in {4, 6, 9, 11} -> 30
                       [] OTHER -> 31
        RECURSIVE DaysBefore(_)
        DaysBefore(m) == IF m = 1 THEN 0 ELSE DaysIn(m - 1) + DaysBefore(m - 1)
        y1 == year - 1
    IN  IF ~shape THEN Raise("Invalid isoformat string: '" \o s \o "'")
        ELSE IF ~(year >= 1 /\ month \in 1..12 /\ day \in 1..DaysIn(month)
                  /\ hour <= 23 /\ minute <= 59 /\ second <= 59)
        THEN Raise("Invalid isoformat string: '" \o s \o "'")
        ELSE Return([ord |-> y1 * 365 + y1 \div 4 - y1 \div 100 + y1 \div 400
                             + DaysBefore(month) + day,
                     hour |-> hour, minute |-> minute, second |-> second, microsecond |-> 0])

\* _extract_time(text): (hour, minute), or None
ExtractTime(text) ==
    LET Try(k) == ReSearch(Compile(ExtractTimePatterns[k]), text)
        IsDigits(g) == g # "" /\ \A j \in 1..Len(g) : IsDigit(CharAt(g, j))
        Time(groups) ==
            LET hour   == ToFloat(groups[1])
                minute == IF Len(groups) > 1 /\ IsDigits(groups[2])
                          THEN ToFloat(groups[2]) ELSE 0
                period == IF Len(groups) > 2 THEN groups[3] ELSE None
            IN  [found  |-> TRUE,
                 hour   |-> IF period = "pm" /\ hour < 12 THEN hour + 12
                            ELSE IF period = "am" /\ hour = 12 THEN 0
                            ELSE hour,
                 minute |-> minute]
    IN  IF Try(1).found THEN Time(Try(1).groups)
        ELSE IF Try(2).found THEN Time(Try(2).groups)
        ELSE [found |-> FALSE]

\* _parse_time(time_str), now being datetime.utcnow(): the datetime returned
\* or the error raised
ParseTime(time_str_given, now) ==
    LET time_str  == Strip(Lower(time_str_given))
        \* time_str has no 'Z' left to replace
        iso       == FromIsoFormat(time_str)
        time_part == ExtractTime(time_str)
        \* dt.replace(hour=.., minute=.., second=0, microsecond=0)
        Replace(dt, hour, minute) ==
            IF hour > 23 THEN Raise("hour must be in 0..23")
            ELSE IF minute > 59 THEN Raise("minute must be in 0..59")
            ELSE Return([dt EXCEPT !.hour = hour, !.minute = minute, !.second = 0,
                                   !.microsecond = 0])
        match  == ReSearch(Compile(InPattern), time_str)
        amount == ToFloat(match.groups[1])
        unit   == match.groups[2]
    IN  IF ~iso.raised THEN iso
        ELSE IF Contains(time_str, "tomorrow")
        THEN LET base == PlusDelta(now, 1, 0, 0)
             IN  IF base.raised THEN base
                 ELSE IF time_part.found
                 THEN Replace(base.value, time_part.hour, time_part.minute)
                 ELSE Replace(base.value, 9, 0)
        ELSE IF Contains(time_str, "today")
        THEN IF time_part.found THEN Replace(now, time_part.hour, time_part.minute)
             ELSE Return(now)
        ELSE IF Contains(time_str, "in") /\ match.found
        THEN CASE unit = "hour"   -> PlusDelta(now, 0, amount, 0)
               [] unit = "minute" -> PlusDelta(now, 0, 0, amount)
               [] unit = "day"    -> PlusDelta(now, amount, 0, 0)
        ELSE PlusDelta(now, 0, 1, 0)

(***************************************************************************)
(* Inputs of the model                                                     *)
(***************************************************************************)
MaxHistory == 2     \* the longest command_history explored

MaxCustom == 2      \* the number of add_custom_pattern calls explored

MaxCalls == 2       \* the number of invocations of one tool handler explored

\* the (intent, pattern) pairs given to add_custom_pattern
CustomPatterns == { <<SHOPPING, CustomShoppingPattern>> }
MoreCustomPatterns == CustomPatterns \cup { <<HOME_AUTOMATION, CustomHomePattern>> }
\* and a pattern for an intent that has no pattern list
AllCustomPatterns == MoreCustomPatterns \cup { <<UNKNOWN, CustomHomePattern>> }

ContextKeys   == {"last_product"}
ContextValues == {"laptop"}

\* what the chat collaborator does with one request: it fails (error or
\* timeout), or it returns a content that json.loads rejects, or a content
\* that json.loads turns into the given value
ChatJson(v)      == [kind |-> "json", value |-> v]

AiAnswer(intent, confidence) ==
    PyDict("intent" :> PyStr(intent) @@ "confidence" :> PyNum(confidence) @@
           "entities" :> PyDict("product" :> PyStr("keyboard")) @@
           "action" :> PyStr("search_product"))

ChatOutcomes ==
    { [kind |-> "error"],                    \* chat raises
      [kind |-> "text"],                     \* the content is no JSON
      ChatJson(AiAnswer(SYSTEM_CONTROL, 5)), \* confidence 0.5
      ChatJson(AiAnswer(CAMERA, 0)) }        \* confidence 0.0

MoreChatOutcomes ==
    ChatOutcomes \cup
    { ChatJson(AiAnswer(SHOPPING, 9)),       \* the answer the prompt asks for
      ChatJson(AiAnswer("shop", 9)),         \* an intent outside CommandIntent
      ChatJson(PyList(<<>>)) }               \* JSON, but no object

\* what a dispatcher's execute_tool(action, parameters) can do: raise, or
\* return a result
\* str(x) of an Optional[str]
StrOf(x) == IF x = None THEN "None" ELSE x

NotFoundResult(action) ==
    PyDict("success" :> PyBool(FALSE) @@
           "error" :> PyStr("Tool '" \o StrOf(action) \o "' not found"))

ToolOutcomes(action) ==
    LET GoodProducts == PyDict("products" :> PyList(<< PyDict("name" :> PyStr("laptop") @@
                                                              "price" :> PyNum(999)) >>))
        BadProducts  == PyDict("products" :> PyList(<< PyDict("price" :> PyNum(999)) >>))
    IN
    { Raise("Tool '" \o StrOf(action) \o "' not found"), Return(PyNone) }
    \cup (CASE action = "product_search" -> { Return(GoodProducts), Return(BadProducts) }
            [] action = "camera_capture" -> { Return(PyDict("success" :> PyBool(TRUE))) }
            [] OTHER -> { Return(NotFoundResult(action)) })

\* a clock time as it is written: "2:30 pm" (form "H:MM") or "2pm" (form "H")
ClockText(hour, period, form) ==
    IF form = "H:MM" THEN IntToStr(hour) \o ":30 " \o period ELSE IntToStr(hour) \o period

\* the time expressions given to _parse_time
TimeStrings ==
    { day \o " at " \o ClockText(h, per, f) :
          day \in {"tomorrow", "today"}, h \in 1..12, per \in {"am", "pm"}, f \in {"H:MM", "H"} }
    \cup { "in " \o IntToStr(n) \o " " \o u :
              n \in {0, 2, 90, 4000000}, u \in {"hours", "minutes", "days"} }
    \cup { "tomorrow", "today", "Tomorrow at 2PM", "tomorrow at 14:30", "tomorrow at 2:30",
           "next monday", "at 2pm", "", "in 2 weeks", "in a minute", "within 3 hours",
           "2025-03-01T10:30:00", "2025-02-30" }

\* the values of datetime.utcnow(): late in the evening of a day of 2024,
\* and a morning on the full hour
Nows ==
    { [ord |-> 739000, hour |-> 23, minute |-> 30, second |-> 15, microsecond |-> 250],
      [ord |-> 738900, hour |-> 9, minute |-> 0, second |-> 0, microsecond |-> 0] }

(***************************************************************************)
(* The router's state.  task[t] is one caller of the router: where it is   *)
(* suspended and the local variables of its coroutine.                     *)
(***************************************************************************)
VARIABLES
    command_patterns,   \* self.command_patterns, in insertion order
    command_history,    \* self.command_history
    context,            \* self.context
    ai_service,         \* self.ai_service
    mcp_server,         \* self.mcp_server
    task,               \* the callers of the router
    added,              \* the arguments of the add_custom_pattern calls so far
    tools,              \* MCPServer.tools: the names of the registered tools
    handler_calls,      \* how often each tool's handler has been invoked
    mcp_call,           \* the caller of MCPServer.execute_command
    time_call,          \* the caller of PersonalAssistantModule._parse_time
    voice,              \* the caller of process_voice_input
    history_call        \* the caller of get_command_history

vars == <<command_patterns, command_history, context, ai_service, mcp_server, task, added,
          tools, handler_calls, mcp_call, time_call, voice, history_call>>

\* the state of the tool registry and of the time parser, and the voice
\* pipeline
outside == <<tools, handler_calls, mcp_call, time_call, voice, history_call>>

router == <<command_patterns, command_history, context, ai_service, mcp_server>>

Tasks == {1, 2}
SeqTasks == {1}      \* one caller at a time

\* the objects given to initialize(): an AIService or nothing; an MCPServer
\* (mcp/server.py, which defines no execute_tool), or an object that
\* implements execute_tool, or nothing
AI_SERVICE      == "AIService"
MCP_SERVER      == "MCPServer"
\* the tools MCPServer._register_tools registers
RegisteredTools ==
    { "system_info", "list_processes", "list_files", "read_file", "gpio_control",
      "camera_capture", "play_sound", "network_status", "service_control" }
TOOL_DISPATCHER == "ToolDispatcher"

NoMatch    == [intent |-> UNKNOWN, entities |-> PyDict(EmptyDict), confidence |-> 0]
NoCommand  == [absent |-> TRUE]
NoResult   == [absent |-> TRUE]
NoResponse == [absent |-> TRUE]

\* the locals of a caller (dispatches counts the execute_tool calls its
\* execute_command issued, ai_calls the _ai_parse calls of its parse_command): the text given to parse_command, its trimmed,
\* lower-cased form and use_ai, the table
\* _pattern_match read and its result, what the chat call did ("none" when
\* it was not made) and what _ai_parse returned, the VoiceCommand, how the
\* dispatch step ended, the CommandResponse, and the error raised to the
\* caller
IdleTask ==
    [pc |-> "idle", raw |-> "", text |-> "", use_ai |-> FALSE, table |-> <<>>, pm |-> NoMatch,
     chat |-> "none", ai_result |-> PyNone, command |-> NoCommand, result |-> NoResult,
     response |-> NoResponse, error |-> None, dispatches |-> 0, ai_calls |-> 0]

\* nobody has called MCPServer.execute_command, _parse_time,
\* process_voice_input or get_command_history
NoCall == [pc |-> "idle"]

Init ==
    /\ command_patterns = InitPatterns
    /\ command_history = <<>>
    /\ context = EmptyDict
    /\ ai_service = None
    /\ mcp_server = None
    /\ task = [t \in Tasks |-> IdleTask]
    /\ added = <<>>
    /\ tools = RegisteredTools
    /\ handler_calls = [n \in RegisteredTools |-> 0]
    /\ mcp_call = NoCall
    /\ time_call = NoCall
    /\ voice = NoCall
    /\ history_call = NoCall

Suspended(t) == task[t].pc \in {"ai_wait", "dispatch_wait"}

\* initialize(ai_service, mcp_server)
Initialize(ai, mcp) ==
    /\ ai_service' = ai
    /\ mcp_server' = mcp
    /\ UNCHANGED <<command_patterns, command_history, context, task, added, outside>>

(***************************************************************************)
(* parse_command                                                           *)
(***************************************************************************)
\* a content that json.loads rejects is returned as it is
AiParse_ReturnsContent(outcome) ==
    CASE outcome.kind = "json" -> outcome.value
      [] outcome.kind = "text" -> PyStr("I think you want to shop")
      [] OTHER -> PyNone

\* _ai_parse: the parsed JSON, or None when the chat call or json.loads
\* raised (the except clause)
AiParse(outcome) == IF outcome.kind = "json" THEN outcome.value ELSE PyNone

\* an AI answer of the same confidence is adopted too
Adopts_NotStrict(ai_confidence, confidence) == ai_confidence >= confidence

\* ai_result.get('confidence', 0) > confidence
Adopts(ai_confidence, confidence) == ai_confidence > confidence

\* lines 161-164: the classification after looking at the AI result
AdoptAi(pm, ai_result) ==
    LET \* the value of a JSON number or boolean, in tenths
        NumVal(v) == IF v.ty = "bool" THEN (IF v.v THEN 10 ELSE 0) ELSE v.v
        \* repr(v) of a scalar
        Repr(v) == IF v.ty = "str" THEN "'" \o v.v \o "'" ELSE FStr(v)
    IN
    IF ~Truthy(ai_result) THEN Return(pm)
    ELSE IF ai_result.ty # "dict" THEN AttributeError(ai_result, "get")
    ELSE LET conf == DictGet(ai_result, "confidence", PyNum(0))
         IN  IF conf.ty \notin {"num", "bool"}
             THEN Raise("'>' not supported between instances of '" \o TypeName(conf)
                        \o "' and 'float'")
             ELSE IF ~Adopts(NumVal(conf), pm.confidence) THEN Return(pm)
             ELSE IF "intent" \notin DOMAIN ai_result.v THEN KeyError("intent")
             ELSE IF ~(ai_result.v["intent"].ty = "str"
                       /\ ai_result.v["intent"].v \in CommandIntent)
             THEN Raise(Repr(ai_result.v["intent"]) \o " is not a valid CommandIntent")
             ELSE Return([intent     |-> ai_result.v["intent"].v,
                          entities   |-> DictGet(ai_result, "entities", PyDict(EmptyDict)),
                          confidence |-> NumVal(conf)])

\* lines 166-177: build the VoiceCommand and map it
BuildCommand(text, cls) ==
    MapToAgent(VoiceCommand(text, cls.intent, cls.confidence, cls.entities))

\* the table after add_custom_pattern(intent, pattern)
HasIntent(table, intent) == \E i \in 1..Len(table) : table[i].intent = intent

\* the pattern is appended to the first list of the table, whatever the intent
AddPattern_ToFirstEntry(table, intent, pattern) ==
    [i \in 1..Len(table) |->
        IF i = 1 THEN [table[i] EXCEPT !.patterns = Append(@, pattern)] ELSE table[i]]

AddPattern(table, intent, pattern) ==
    LET t1 == IF HasIntent(table, intent) THEN table
              ELSE Append(table, [intent |-> intent, patterns |-> <<>>])
    IN  [i \in 1..Len(t1) |->
            IF t1[i].intent = intent
            THEN [t1[i] EXCEPT !.patterns = Append(@, pattern)]
            ELSE t1[i]]

NumPatterns(table) ==
    LET RECURSIVE Count(_)
        Count(i) == IF i > Len(table) THEN 0 ELSE Len(table[i].patterns) + Count(i + 1)
    IN  Count(1)

\* the pattern tables reached by at most n calls of add_custom_pattern
RECURSIVE TablesWithin(_)
TablesWithin(n) ==
    IF n = 0 THEN {InitPatterns}
    ELSE LET S == TablesWithin(n - 1)
         IN  S \cup {AddPattern(tb, c[1], c[2]) : tb \in S, c \in AllCustomPatterns}

PatternTables == TablesWithin(MaxCustom)

\* _pattern_match over the sentences and those tables
MatchTable ==
    Tabulated([xt \in NormTexts \X PatternTables |-> PatternMatch(xt[2], xt[1])])

Matched(table, text) ==
    IF text \in NormTexts /\ table \in PatternTables THEN MatchTable[<<text, table>>]
    ELSE PatternMatch(table, text)

\* the commands built from those matches
CommandTable ==
    Tabulated([xc \in {<<xt[1], MatchTable[xt]>> : xt \in NormTexts \X PatternTables} |->
                  BuildCommand(xc[1], xc[2])])

Built(text, cls) ==
    IF <<text, cls>> \in DOMAIN CommandTable THEN CommandTable[<<text, cls>>]
    ELSE BuildCommand(text, cls)

\* text.strip().lower()
Normalize(text) == IF text \in Sentences THEN NormTable[text] ELSE Lower(Strip(text))

\* the AI is asked whatever the confidence of the pattern match
WantsAi_AnyConfidence(confidence, use_ai, service) == use_ai /\ service # None

\* if confidence < 0.7 and use_ai and self.ai_service
WantsAi(confidence, use_ai, service) ==
    confidence < AI_THRESHOLD /\ use_ai /\ service # None

\* a text that matches no pattern is taken for a question about the
\* product the conversation is about
Classify_UsesContext(text) ==
    LET pm == Matched(command_patterns, text)
    IN  IF pm.confidence = 0 /\ "last_product" \in DOMAIN context
        THEN [intent     |-> SHOPPING,
              entities   |-> PyDict("group_0" :> PyStr(context["last_product"])),
              confidence |-> PATTERN_CONFIDENCE]
        ELSE pm

\* intent, entities, confidence = self._pattern_match(text)
Classify(text) == Matched(command_patterns, text)

\* the locals of parse_command(raw, use_ai) at its return or at the await of
\* _ai_parse
ParseTask(raw, use_ai) ==
    LET text == Normalize(raw)
        pm   == Classify(text)
    IN  IF WantsAi(pm.confidence, use_ai, ai_service)
        THEN [IdleTask EXCEPT !.pc = "ai_wait", !.ai_calls = 1, !.raw = raw, !.text = text, !.use_ai = use_ai,
                              !.table = command_patterns, !.pm = pm]
        ELSE [IdleTask EXCEPT !.pc = "parsed", !.raw = raw, !.text = text, !.use_ai = use_ai,
                              !.table = command_patterns, !.pm = pm,
                              !.command = Built(text, pm)]

\* the parsed text is also remembered in the conversation context
ParseCommand_SetsContext(t, raw, use_ai) ==
    /\ ~Suspended(t)
    /\ task' = [task EXCEPT ![t] = ParseTask(raw, use_ai)]
    /\ context' = [k \in DOMAIN context \cup {"last_command"} |->
                       IF k = "last_command" THEN Normalize(raw) ELSE context[k]]
    /\ UNCHANGED <<command_patterns, command_history, ai_service, mcp_server, added, outside>>

\* parse_command(text, use_ai) up to its return or to the await of _ai_parse
ParseCommand(t, raw, use_ai) ==
    /\ ~Suspended(t)
    /\ task' = [task EXCEPT ![t] = ParseTask(raw, use_ai)]
    /\ UNCHANGED <<router, added, outside>>

\* the chat collaborator answers; _ai_parse returns and parse_command runs
\* to its end
AiParseReturn(t, outcome) ==
    /\ task[t].pc = "ai_wait"
    /\ LET ai_result == AiParse(outcome)
           cls       == AdoptAi(task[t].pm, ai_result)
       IN  task' = [task EXCEPT ![t] =
               IF cls.raised
               THEN [@ EXCEPT !.pc = "raised", !.chat = outcome.kind,
                              !.ai_result = ai_result, !.error = cls.value]
               ELSE [@ EXCEPT !.pc = "parsed", !.chat = outcome.kind,
                              !.ai_result = ai_result,
                              !.command = Built(task[t].text, cls.value)]]
    /\ UNCHANGED <<router, added, outside>>

(***************************************************************************)
(* execute_command                                                         *)
(***************************************************************************)
RephraseMessage == "I'm not sure how to handle that command. Can you rephrase?"

ErrorResponse(e) ==
    CommandResponse(FALSE, "Sorry, I encountered an error: " \o e, PyNone)

\* only a command of unknown intent is turned away
AgentMissing_UnknownIntent(command) == command.intent = UNKNOWN

\* if not command.agent
AgentMissing(command) == command.agent = None \/ command.agent = ""

\* whether  self.mcp_server.execute_tool  exists
HasExecuteTool(server) == server = TOOL_DISPATCHER

\* self.mcp_server.execute_tool  on an object without that attribute
NoExecuteTool(server) ==
    Raise("'" \o (IF server = None THEN "NoneType" ELSE server)
          \o "' object has no attribute 'execute_tool'")

\* the locals of a caller of execute_command(command) at its return or at
\* the await of execute_tool
ExecuteTask(tk) ==
    LET failed == NoExecuteTool(mcp_server)
    IN  IF AgentMissing(tk.command)
        THEN [tk EXCEPT !.pc = "done",
                        !.response = CommandResponse(FALSE, RephraseMessage, PyNone)]
        ELSE IF ~HasExecuteTool(mcp_server)
        THEN [tk EXCEPT !.pc = "done", !.result = failed,
                        !.response = ErrorResponse(failed.value)]
        ELSE [tk EXCEPT !.pc = "dispatch_wait", !.dispatches = @ + 1]

\* execute_command(command) up to its return or to the await of execute_tool
ExecuteCommand(t) ==
    /\ task[t].pc = "parsed"
    /\ task' = [task EXCEPT ![t] = ExecuteTask(@)]
    /\ UNCHANGED <<router, added, outside>>

\* the entry is built from the command parsed last, whoever parsed it
HistoryEntry_LastParsed(command, result) ==
    LET last == CHOOSE u \in Tasks :
                    /\ task[u].command # NoCommand
                    /\ \A v \in Tasks : task[v].command # NoCommand => v <= u
    IN  [command |-> task[last].command.raw_text, intent |-> task[last].command.intent,
         result |-> result]

\* the history entry execute_command appends
HistoryEntry(command, result) ==
    [command |-> command.raw_text, intent |-> command.intent, result |-> result]

\* _format_response is called outside the try block
ExecuteToolReturn_FormatUncaught(t, outcome) ==
    /\ task[t].pc = "dispatch_wait"
    /\ LET command == task[t].command
           message == FormatResponse(command, outcome.value)
       IN  IF outcome.raised
           THEN /\ task' = [task EXCEPT ![t] = [@ EXCEPT !.pc = "done", !.result = outcome,
                                                         !.response = ErrorResponse(outcome.value)]]
                /\ UNCHANGED command_history
           ELSE IF message.raised
           THEN /\ task' = [task EXCEPT ![t] = [@ EXCEPT !.pc = "raised", !.result = outcome,
                                                         !.error = message.value]]
                /\ UNCHANGED command_history
           ELSE /\ Len(command_history) < MaxHistory
                /\ command_history' = Append(command_history, HistoryEntry(command, outcome.value))
                /\ task' = [task EXCEPT ![t] =
                       [@ EXCEPT !.pc = "done", !.result = outcome,
                                 !.response = CommandResponse(TRUE, message.value, outcome.value)]]
    /\ UNCHANGED <<command_patterns, context, ai_service, mcp_server, added, outside>>

\* the result is stored in the history before the response is formatted
ExecuteToolReturn_AppendFirst(t, outcome) ==
    /\ task[t].pc = "dispatch_wait"
    /\ LET command == task[t].command
           message == FormatResponse(command, outcome.value)
       IN  IF outcome.raised
           THEN /\ task' = [task EXCEPT ![t] = [@ EXCEPT !.pc = "done", !.result = outcome,
                                                         !.response = ErrorResponse(outcome.value)]]
                /\ UNCHANGED command_history
           ELSE /\ Len(command_history) < MaxHistory
                /\ command_history' = Append(command_history, HistoryEntry(command, outcome.value))
                /\ task' = [task EXCEPT ![t] =
                       [@ EXCEPT !.pc = "done", !.result = outcome,
                                 !.response = IF message.raised THEN ErrorResponse(message.value)
                                              ELSE CommandResponse(TRUE, message.value,
                                                                   outcome.value)]]
    /\ UNCHANGED <<command_patterns, context, ai_service, mcp_server, added, outside>>

\* execute_tool returns or raises; execute_command runs to its end
ExecuteToolReturn(t, outcome) ==
    /\ task[t].pc = "dispatch_wait"
    /\ LET command == task[t].command
           message == FormatResponse(command, outcome.value)
       IN  IF outcome.raised
           THEN /\ task' = [task EXCEPT ![t] = [@ EXCEPT !.pc = "done", !.result = outcome,
                                                         !.response = ErrorResponse(outcome.value)]]
                /\ UNCHANGED command_history
           ELSE IF message.raised
           THEN /\ task' = [task EXCEPT ![t] = [@ EXCEPT !.pc = "done", !.result = outcome,
                                                         !.response = ErrorResponse(message.value)]]
                /\ UNCHANGED command_history
           ELSE /\ Len(command_history) < MaxHistory
                /\ command_history' = Append(command_history, HistoryEntry(command, outcome.value))
                /\ task' = [task EXCEPT ![t] =
                       [@ EXCEPT !.pc = "done", !.result = outcome,
                                 !.response = CommandResponse(TRUE, message.value, outcome.value)]]
    /\ UNCHANGED <<command_patterns, context, ai_service, mcp_server, added, outside>>

\* the dispatcher answers the call in flight in one of the ways it can
ToolReturns(t) ==
    /\ task[t].pc = "dispatch_wait"
    /\ \E outcome \in ToolOutcomes(task[t].command.action) : ExecuteToolReturn(t, outcome)

\* the cancelled call stores what it has so far before it ends
CancelExecute_AppendsPartial(t) ==
    /\ task[t].pc = "dispatch_wait"
    /\ Len(command_history) < MaxHistory
    /\ command_history' = Append(command_history, HistoryEntry(task[t].command, PyNone))
    /\ task' = [task EXCEPT ![t] = [@ EXCEPT !.pc = "cancelled", !.error = "CancelledError"]]
    /\ UNCHANGED <<command_patterns, context, ai_service, mcp_server, added, outside>>

\* the caller's task is cancelled while execute_tool is awaited: CancelledError
\* is raised at the await; it is no Exception, so it leaves execute_command
CancelExecute(t) ==
    /\ task[t].pc = "dispatch_wait"
    /\ task' = [task EXCEPT ![t] = [@ EXCEPT !.pc = "cancelled", !.error = "CancelledError"]]
    /\ UNCHANGED <<router, added, outside>>

\* get_command_history(limit): self.command_history[-limit:], a slice that
\* starts at index -limit counted from the end, or at 0 when limit is 0
GetCommandHistory(limit) ==
    LET n     == Len(command_history)
        start == IF limit = 0 THEN 0
                 ELSE IF limit > 0 THEN (IF limit > n THEN 0 ELSE n - limit)
                 ELSE (IF -limit > n THEN n ELSE -limit)
    IN  /\ history_call' = [pc |-> "done", limit |-> limit, history |-> command_history,
                            result |-> SubSeq(command_history, start + 1, n)]
        /\ UNCHANGED <<router, task, added, tools, handler_calls, mcp_call, time_call, voice>>

(***************************************************************************)
(* MCPServer: register_tool and execute_command                            *)
(***************************************************************************)
\* self.tools[name] = MCPTool(name, description, input_schema, handler)
RegisterTool(name) ==
    /\ mcp_call.pc # "handler_wait"
    /\ tools' = tools \cup {name}
    /\ handler_calls' = [n \in tools \cup {name} |->
                            IF n \in tools THEN handler_calls[n] ELSE 0]
    /\ UNCHANGED <<router, task, added, voice, mcp_call, time_call, history_call>>

\* execute_command(command) up to its return or to the await of the handler
McpExecuteCommand(command) ==
    /\ mcp_call.pc # "handler_wait"
    /\ LET tool_name == DictGet(command, "tool", PyNone)
           call      == [pc |-> "done", command |-> command, tool |-> None,
                         outcome |-> NoResult, result |-> NoResult]
           Failure(e) == PyDict("success" :> PyBool(FALSE) @@ "error" :> PyStr(e))
       IN  IF command.ty # "dict"
           THEN /\ mcp_call' = [call EXCEPT !.result =
                        Failure("'" \o TypeName(command) \o "' object has no attribute 'get'")]
                /\ UNCHANGED handler_calls
           ELSE IF tool_name.ty \in {"list", "dict"}
           THEN /\ mcp_call' = [call EXCEPT !.result =
                        Failure("unhashable type: '" \o TypeName(tool_name) \o "'")]
                /\ UNCHANGED handler_calls
           ELSE IF tool_name.ty # "str" \/ tool_name.v \notin tools
           THEN /\ mcp_call' = [call EXCEPT !.result =
                        Failure("Tool '" \o FStr(tool_name) \o "' not found")]
                /\ UNCHANGED handler_calls
           ELSE /\ handler_calls[tool_name.v] < MaxCalls
                /\ handler_calls' = [handler_calls EXCEPT ![tool_name.v] = @ + 1]
                /\ mcp_call' = [call EXCEPT !.pc = "handler_wait", !.tool = tool_name.v]
    /\ UNCHANGED <<router, task, added, voice, tools, time_call, history_call>>

\* the handler's exception leaves execute_command
HandlerReturn_Propagates(outcome) ==
    /\ mcp_call.pc = "handler_wait"
    /\ mcp_call' = IF outcome.raised
                   THEN [mcp_call EXCEPT !.pc = "raised", !.outcome = outcome]
                   ELSE [mcp_call EXCEPT !.pc = "done", !.outcome = outcome,
                             !.result = PyDict("success" :> PyBool(TRUE) @@
                                               "tool" :> PyStr(mcp_call.tool) @@
                                               "result" :> outcome.value)]
    /\ UNCHANGED <<router, task, added, voice, tools, handler_calls, time_call, history_call>>

\* a handler that raised is invoked again
HandlerReturn_Retry(outcome) ==
    /\ mcp_call.pc = "handler_wait"
    /\ IF outcome.raised /\ handler_calls[mcp_call.tool] < MaxCalls
       THEN /\ handler_calls' = [handler_calls EXCEPT ![mcp_call.tool] = @ + 1]
            /\ UNCHANGED mcp_call
       ELSE /\ mcp_call' = [mcp_call EXCEPT !.pc = "done", !.outcome = outcome,
                     !.result = IF outcome.raised
                                THEN PyDict("success" :> PyBool(FALSE) @@
                                            "error" :> PyStr(outcome.value))
                                ELSE PyDict("success" :> PyBool(TRUE) @@
                                            "tool" :> PyStr(mcp_call.tool) @@
                                            "result" :> outcome.value)]
            /\ UNCHANGED handler_calls
    /\ UNCHANGED <<router, task, added, voice, tools, time_call, history_call>>

\* the handler returns or raises; execute_command runs to its end
HandlerReturn(outcome) ==
    /\ mcp_call.pc = "handler_wait"
    /\ mcp_call' = [mcp_call EXCEPT !.pc = "done", !.outcome = outcome,
             !.result = IF outcome.raised
                        THEN PyDict("success" :> PyBool(FALSE) @@
                                    "error" :> PyStr(outcome.value))
                        ELSE PyDict("success" :> PyBool(TRUE) @@
                                    "tool" :> PyStr(mcp_call.tool) @@
                                    "result" :> outcome.value)]
    /\ UNCHANGED <<router, task, added, voice, tools, handler_calls, time_call, history_call>>

(***************************************************************************)
(* process_voice_input: recognize, parse_command, execute_command, speak   *)
(***************************************************************************)
\* the response of the except branch of process_voice_input
TroubleResponse ==
    CommandResponse(FALSE, "Sorry, I had trouble processing that command.", PyNone)

\* process_voice_input(audio_bytes, voice_recognition_service, tts_service)
\* up to the await of recognize; calls lists the collaborators and methods
\* called so far
ProcessVoiceInput(t, tts_service) ==
    /\ voice.pc \in {"idle", "done"}
    /\ ~Suspended(t)
    /\ voice' = [pc |-> "recognize_wait", t |-> t, tts_service |-> tts_service,
                 calls |-> << "recognize" >>, text |-> NoResult,
                 response |-> NoResponse, history |-> command_history]
    /\ UNCHANGED <<router, task, added, tools, handler_calls, mcp_call, time_call, history_call>>

\* recognize returns or raises; on a text, parse_command runs to its return
\* or to the await of _ai_parse
RecognizeReturn(outcome) ==
    /\ voice.pc = "recognize_wait"
    /\ IF outcome.raised
       THEN /\ voice' = [voice EXCEPT !.pc = "done", !.text = outcome,
                                      !.response = TroubleResponse]
            /\ UNCHANGED task
       ELSE IF ~Truthy(outcome.value)
       THEN /\ voice' = [voice EXCEPT !.pc = "done", !.text = outcome,
                     !.response = CommandResponse(FALSE,
                                      "I didn't catch that. Could you repeat?", PyNone)]
            /\ UNCHANGED task
       ELSE /\ voice' = [voice EXCEPT !.pc = "parse_wait", !.text = outcome,
                                      !.calls = Append(@, "parse_command")]
            /\ task' = [task EXCEPT ![voice.t] = ParseTask(outcome.value.v, TRUE)]
    /\ UNCHANGED <<router, added, tools, handler_calls, mcp_call, time_call, history_call>>

\* parse_command has returned or raised; on a command, execute_command runs
\* to its return or to the await of execute_tool
VoiceParsed ==
    /\ voice.pc = "parse_wait"
    /\ task[voice.t].pc \in {"parsed", "raised"}
    /\ IF task[voice.t].pc = "raised"
       THEN /\ voice' = [voice EXCEPT !.pc = "done", !.response = TroubleResponse]
            /\ UNCHANGED task
       ELSE /\ voice' = [voice EXCEPT !.pc = "execute_wait",
                                      !.calls = Append(@, "execute_command")]
            /\ task' = [task EXCEPT ![voice.t] = ExecuteTask(@)]
    /\ UNCHANGED <<router, added, tools, handler_calls, mcp_call, time_call, history_call>>

\* execute_command has returned; the response is spoken if it asks for it
\* and there is a TTS service
VoiceExecuted ==
    /\ voice.pc = "execute_wait"
    /\ task[voice.t].pc \in {"done", "raised"}
    /\ LET response == task[voice.t].response
       IN  voice' = IF task[voice.t].pc = "raised"
                    THEN [voice EXCEPT !.pc = "done", !.response = TroubleResponse]
                    ELSE IF response.speak /\ voice.tts_service # None
                    THEN [voice EXCEPT !.pc = "speak_wait", !.response = response,
                                       !.calls = Append(@, "speak")]
                    ELSE [voice EXCEPT !.pc = "done", !.response = response]
    /\ UNCHANGED <<router, task, added, tools, handler_calls, mcp_call, time_call, history_call>>

\* an exception of tts_service.speak leaves process_voice_input
SpeakReturn_Propagates(outcome) ==
    /\ voice.pc = "speak_wait"
    /\ voice' = IF outcome.raised
                THEN [voice EXCEPT !.pc = "raised", !.response = NoResponse]
                ELSE [voice EXCEPT !.pc = "done"]
    /\ UNCHANGED <<router, task, added, tools, handler_calls, mcp_call, time_call, history_call>>

\* tts_service.speak returns or raises; process_voice_input runs to its end
SpeakReturn(outcome) ==
    /\ voice.pc = "speak_wait"
    /\ voice' = IF outcome.raised
                THEN [voice EXCEPT !.pc = "done", !.response = TroubleResponse]
                ELSE [voice EXCEPT !.pc = "done"]
    /\ UNCHANGED <<router, task, added, tools, handler_calls, mcp_call, time_call, history_call>>

(***************************************************************************)
(* add_custom_pattern, set_context, clear_context                          *)
(***************************************************************************)
AddCustomPattern(intent, pattern) ==
    /\ NumPatterns(command_patterns) < NumPatterns(InitPatterns) + MaxCustom
    /\ command_patterns' = AddPattern(command_patterns, intent, pattern)
    /\ added' = Append(added, <<intent, pattern>>)
    /\ UNCHANGED <<command_history, context, ai_service, mcp_server, task, outside>>

SetContext(key, value) ==
    /\ context' = [k \in DOMAIN context \cup {key} |-> IF k = key THEN value ELSE context[k]]
    /\ UNCHANGED <<command_patterns, command_history, ai_service, mcp_server, task, added, outside>>

ClearContext ==
    /\ context' = EmptyDict
    /\ UNCHANGED <<command_patterns, command_history, ai_service, mcp_server, task, added, outside>>

(***************************************************************************)
(* The router used by one caller at a time                                 *)
(***************************************************************************)
Next ==
    \/ \E ai \in {None, AI_SERVICE}, mcp \in {MCP_SERVER, TOOL_DISPATCHER} : Initialize(ai, mcp)
    \/ \E t \in SeqTasks, raw \in Utterances, use_ai \in BOOLEAN : ParseCommand(t, raw, use_ai)
    \/ \E t \in SeqTasks, outcome \in ChatOutcomes : AiParseReturn(t, outcome)
    \/ \E t \in SeqTasks : ExecuteCommand(t)
    \/ \E t \in SeqTasks : ToolReturns(t)
    \/ \E c \in CustomPatterns : AddCustomPattern(c[1], c[2])
    \/ \E k \in ContextKeys, v \in ContextValues : SetContext(k, v)
    \/ ClearContext

Spec == Init /\ [][Next]_vars

(***************************************************************************)
(* parse_command alone, over the sentences                                 *)
(***************************************************************************)
NextParse ==
    \/ \E ai \in {None, AI_SERVICE} : Initialize(ai, MCP_SERVER)
    \/ \E t \in SeqTasks, raw \in Sentences, use_ai \in BOOLEAN : ParseCommand(t, raw, use_ai)
    \/ \E t \in SeqTasks, outcome \in MoreChatOutcomes : AiParseReturn(t, outcome)
    \/ \E c \in MoreCustomPatterns : AddCustomPattern(c[1], c[2])
    \/ \E k \in ContextKeys, v \in ContextValues : SetContext(k, v)
    \/ ClearContext

SpecParse == Init /\ [][NextParse]_vars

(***************************************************************************)
(* add_custom_pattern and parse_command, over every custom pattern         *)
(***************************************************************************)
NextPatterns ==
    \/ Initialize(AI_SERVICE, MCP_SERVER)
    \/ \E c \in AllCustomPatterns : AddCustomPattern(c[1], c[2])
    \/ \E t \in SeqTasks, raw \in Sentences, use_ai \in BOOLEAN : ParseCommand(t, raw, use_ai)
    \/ \E t \in SeqTasks, outcome \in ChatOutcomes : AiParseReturn(t, outcome)

SpecPatterns == Init /\ [][NextPatterns]_vars

(***************************************************************************)
(* The time parser, called with each time expression                       *)
(***************************************************************************)
\* ParseTime over the time expressions and instants above
ParseTimeTable == Tabulated([x \in TimeStrings \X Nows |-> ParseTime(x[1], x[2])])

\* _parse_time(time_str) at the instant now
ParseTimeCall(time_str, now) ==
    /\ time_call' = [pc |-> "done", time_str |-> time_str, now |-> now,
                     result |-> IF <<time_str, now>> \in DOMAIN ParseTimeTable
                                THEN ParseTimeTable[<<time_str, now>>]
                                ELSE ParseTime(time_str, now)]
    /\ UNCHANGED <<router, task, added, voice, tools, handler_calls, mcp_call, history_call>>

NextTime == \E time_str \in TimeStrings, now \in Nows : ParseTimeCall(time_str, now)

SpecTime == Init /\ [][NextTime]_vars

(***************************************************************************)
(* The tool registry beside a router that dispatches to a tool dispatcher  *)
(***************************************************************************)
\* the commands given to MCPServer.execute_command: a registered tool, a tool
\* registered later or never, no "tool" key, a list as the tool name, and a
\* command that is not a dict
McpCommands ==
    { PyDict("tool" :> PyStr("camera_capture") @@ "arguments" :> PyDict(EmptyDict)),
      PyDict("tool" :> PyStr("control_device")),
      PyDict("tool" :> PyStr("Camera_Capture")),
      PyDict("arguments" :> PyDict(EmptyDict)),
      PyDict("tool" :> PyList(<<>>)),
      PyNone }

\* what a handler can do: return a dict, return nothing, raise
HandlerOutcomes ==
    { Return(PyDict("result" :> PyStr("success"))), Return(PyNone),
      Raise("Command failed: no cameras available") }

NextServer ==
    \/ RegisterTool("control_device")
    \/ \E command \in McpCommands : McpExecuteCommand(command)
    \/ \E outcome \in HandlerOutcomes : HandlerReturn(outcome)
    \/ \E mcp \in {MCP_SERVER, TOOL_DISPATCHER} : Initialize(None, mcp)
    \/ \E t \in SeqTasks, raw \in {"Turn on the lights", "what's the time"} :
           ParseCommand(t, raw, FALSE)
    \/ \E t \in SeqTasks : ExecuteCommand(t)
    \/ \E t \in SeqTasks : ToolReturns(t)

SpecServer == Init /\ [][NextServer]_vars

(***************************************************************************)
(* The voice pipeline                                                      *)
(***************************************************************************)
\* what recognize can do: return a text, an empty text or None, or raise
RecognizeOutcomes ==
    { Return(PyStr(raw)) : raw \in {"Turn on the lights", "what's the time",
                                    "What's Dutch for hello"} }
    \cup { Return(PyStr("")), Return(PyNone), Raise("recognition failed") }

NextVoice ==
    \/ \E ai \in {None, AI_SERVICE}, mcp \in {MCP_SERVER, TOOL_DISPATCHER} : Initialize(ai, mcp)
    \/ \E t \in SeqTasks, tts_service \in {None, "TTS"} : ProcessVoiceInput(t, tts_service)
    \/ \E outcome \in RecognizeOutcomes : RecognizeReturn(outcome)
    \/ \E t \in SeqTasks, outcome \in MoreChatOutcomes : AiParseReturn(t, outcome)
    \/ VoiceParsed
    \/ \E t \in SeqTasks : ToolReturns(t)
    \/ VoiceExecuted
    \/ \E outcome \in {Return(PyNone), Raise("audio device busy")} : SpeakReturn(outcome)

SpecVoice == Init /\ [][NextVoice]_vars

(***************************************************************************)
(* Two callers whose pipelines interleave at the awaits, and cancellation  *)
(***************************************************************************)
NextConcurrent ==
    \/ Initialize(AI_SERVICE, TOOL_DISPATCHER)
    \/ \E t \in Tasks, raw \in {"Turn on the lights", "What's Dutch for hello"} :
           ParseCommand(t, raw, TRUE)
    \/ \E t \in Tasks, outcome \in {[kind |-> "error"], ChatJson(AiAnswer(CAMERA, 9)),
                                      ChatJson(AiAnswer(CAMERA, 50))} : \* confidence 5.0
           AiParseReturn(t, outcome)
    \/ \E t \in Tasks : ExecuteCommand(t)
    \/ \E t \in Tasks : ToolReturns(t)
    \/ \E t \in Tasks : CancelExecute(t)

SpecConcurrent == Init /\ [][NextConcurrent]_vars

(***************************************************************************)
(* get_command_history beside a router that fills the history              *)
(***************************************************************************)
NextHistory ==
    \/ Initialize(None, TOOL_DISPATCHER)
    \/ \E t \in SeqTasks, raw \in {"Turn on the lights", "Take a photo"} :
           ParseCommand(t, raw, FALSE)
    \/ \E t \in SeqTasks : ExecuteCommand(t)
    \/ \E t \in SeqTasks : ToolReturns(t)
    \/ \E limit \in {0, 1, 2, 10} : GetCommandHistory(limit)

SpecHistory == Init /\ [][NextHistory]_vars

(***************************************************************************)
(* Properties of execute_command                                           *)
(***************************************************************************)
\* task t is at a step of execute_command that started from its parsed command
ExecuteStep(t) == task[t].pc = "parsed" /\ task'[t].pc \in {"done", "dispatch_wait"}

\* C1: execute_command on a VoiceCommand whose agent is absent returns
\* success=false, speak=true and the fixed rephrase message, without calling
\* the tool dispatcher and without changing the command history.
C1_NoAgentRephrase ==
    [][\A t \in Tasks :
          (ExecuteStep(t) /\ task[t].command.agent = None) =>
              /\ task'[t].pc = "done"
              /\ task'[t].response =
                     [success |-> FALSE, speak |-> TRUE, data |-> PyNone,
                      message |-> "I'm not sure how to handle that command. Can you rephrase?"]
              /\ task'[t].result = NoResult
              /\ command_history' = command_history]_vars

\* a command of intent system_control was turned away while the history
\* held an entry
C1_Witness ==
    \E t \in Tasks :
        /\ task[t].pc = "done"
        /\ task[t].command.agent = None
        /\ task[t].command.intent = SYSTEM_CONTROL
        /\ task[t].response.message = RephraseMessage
        /\ command_history # <<>>

C3_UnregisteredToolNotFound ==
    [][\A t \in Tasks :
          ( /\ ExecuteStep(t)
            /\ mcp_server = MCP_SERVER
            /\ task[t].command.agent # None
            /\ task[t].command.action # None
            /\ task[t].command.action \notin RegisteredTools )
          => /\ task'[t].pc = "done"
             /\ ~task'[t].response.success
             /\ Contains(task'[t].response.message,
                         "Tool '" \o task[t].command.action \o "' not found")]_vars

\* C4: the command history grows by exactly the entry {raw_text, intent,
\* result} of a call when that call returns success=true, at the moment it
\* returns, and no other step changes it.
C4_HistoryIsSuccessLog ==
    [][LET Succeeds(t) == /\ task[t].pc \in {"parsed", "dispatch_wait"}
                          /\ task'[t].pc = "done"
                          /\ task'[t].response.success
       IN  IF \E t \in Tasks : Succeeds(t)
           THEN \E t \in Tasks :
                   /\ Succeeds(t)
                   /\ command_history' =
                          Append(command_history,
                                 [command |-> task[t].command.raw_text,
                                  intent  |-> task[t].command.intent,
                                  result  |-> task'[t].response.data])
           ELSE command_history' = command_history]_vars

\* two different successful calls, then a call whose dispatch failed
C4_Witness ==
    /\ Len(command_history) = 2
    /\ command_history[1] # command_history[2]
    /\ \E t \in Tasks :
          /\ task[t].pc = "done"
          /\ task[t].result # NoResult
          /\ ~task[t].response.success

(***************************************************************************)
(* Properties of parse_command                                             *)
(***************************************************************************)
\* task t is at a step of parse_command: its start, or the return of _ai_parse
ParseStep(t) == task'[t] # task[t] /\ task'[t].pc \in {"ai_wait", "parsed", "raised"}

\* the locals of t hold a VoiceCommand
HasCommand(t) == task[t].pc \in {"parsed", "dispatch_wait", "done"}

\* C5: parse_command leaves the command history, the conversation context
\* and the pattern table unchanged, with or without a call of the AI fallback.
C5_ParseFrame ==
    [][\A t \in Tasks :
          ParseStep(t) => UNCHANGED <<command_history, context, command_patterns>>]_vars

\* a parse that called the AI fallback returned on a router with a history
\* entry, a context entry and a custom pattern
C5_Witness ==
    \E t \in Tasks :
        /\ task[t].pc = "parsed"
        /\ task[t].chat # "none"
        /\ command_history # <<>>
        /\ DOMAIN context # {}
        /\ command_patterns # InitPatterns

\* C6: the returned confidence is never below the pattern confidence; the AI
\* result's intent, entities and confidence are the command's when the AI
\* confidence is strictly greater than the pattern confidence, and the
\* pattern result's are otherwise.
C6_AiOnlyRaisesConfidence ==
    \A t \in Tasks :
        HasCommand(t) =>
            LET c  == task[t].command
                pm == task[t].pm
                ai == task[t].ai_result
            IN  /\ c.confidence >= pm.confidence
                /\ IF ai.ty = "dict" /\ ai.v["confidence"].v > pm.confidence
                   THEN /\ c.intent = ai.v["intent"].v
                        /\ c.entities = ai.v["entities"]
                        /\ c.confidence = ai.v["confidence"].v
                   ELSE /\ c.intent = pm.intent
                        /\ c.entities = pm.entities
                        /\ c.confidence = pm.confidence

\* an AI answer of confidence 0.5 replaced a pattern result of confidence 0.0
C6_Witness ==
    \E t \in Tasks :
        /\ task[t].pc = "parsed"
        /\ task[t].ai_result.ty = "dict"
        /\ task[t].pm.confidence = 0
        /\ task[t].command.confidence = 5
        /\ task[t].command.intent = SYSTEM_CONTROL

\* C7: when the chat call fails or its content is no JSON, _ai_parse returns
\* nothing and parse_command returns, without raising, the VoiceCommand of
\* the pattern match alone.
C7_AiFailureFallsBack ==
    \A t \in Tasks :
        task[t].chat \in {"error", "text"} =>
            /\ HasCommand(t)
            /\ task[t].ai_result = PyNone
            /\ task[t].command =
                   BuildCommand(task[t].text, PatternMatch(task[t].table, task[t].text))

\* the chat collaborator answered with a content that is no JSON
C7_Witness ==
    \E t \in Tasks :
        /\ task[t].pc = "parsed"
        /\ task[t].use_ai
        /\ task[t].chat = "text"

\* C8: a parse_command of the text of the caller's previous call, with the
\* pattern table that call read, gives the pattern classification that call
\* got, and the same intent, confidence and entities when neither call used
\* the AI fallback, whatever happened to history and context in between.
C8_ParseIdempotent ==
    [][\A t \in Tasks :
          ( /\ ParseStep(t)
            /\ task'[t].chat = "none"
            /\ task[t].pc # "idle"
            /\ task[t].text = task'[t].text
            /\ task[t].table = task'[t].table )
          => /\ task'[t].pm = task[t].pm
             /\ (HasCommand(t) /\ task[t].chat = "none" /\ task'[t].pc = "parsed")
                => /\ task'[t].command.intent = task[t].command.intent
                   /\ task'[t].command.confidence = task[t].command.confidence
                   /\ task'[t].command.entities = task[t].command.entities]_vars

\* a text was parsed again after its command was executed and stored in the
\* history, with a context entry set
C8_Witness ==
    \E t \in Tasks :
        /\ task[t].pc = "parsed"
        /\ task[t].chat = "none"
        /\ task[t].table = command_patterns
        /\ DOMAIN context # {}
        /\ \E i \in 1..Len(command_history) :
              /\ command_history[i].command = task[t].text
              /\ command_history[i].intent = task[t].command.intent

\* entry e of the table has a pattern that matches the text
EntryMatches(table, e, text) ==
    \E k \in 1..Len(table[e].patterns) : Search(table[e].patterns[k], text).found

\* C9 as amended: a text that matches a pattern of intent I and no pattern
\* of an intent that precedes I in the pattern table is given intent I and
\* confidence 0.8 by parse_command with the AI fallback disabled.
C9_FirstMatchingIntent ==
    \A t \in Tasks :
        (task[t].pc = "parsed" /\ ~task[t].use_ai) =>
            \A e \in 1..Len(task[t].table) :
                ( /\ EntryMatches(task[t].table, e, task[t].text)
                  /\ \A d \in 1..(e - 1) : ~EntryMatches(task[t].table, d, task[t].text) )
                => /\ task[t].command.intent = task[t].table[e].intent
                   /\ task[t].command.confidence = 8

\* a text that matches patterns of shopping and of dutch_learning was given
\* the intent shopping
C9_Witness ==
    \E t \in Tasks :
        /\ task[t].pc = "parsed"
        /\ ~task[t].use_ai
        /\ task[t].command.intent = SHOPPING
        /\ \E e \in 1..Len(task[t].table) :
              /\ task[t].table[e].intent = DUTCH_LEARNING
              /\ EntryMatches(task[t].table, e, task[t].text)

\* C9 as claimed: a text that matches a pattern of intent I is given intent I
\* and confidence 0.8 by parse_command with the AI fallback disabled.
C9_EveryMatchingIntent ==
    \A t \in Tasks :
        (task[t].pc = "parsed" /\ ~task[t].use_ai) =>
            \A e \in 1..Len(task[t].table) :
                EntryMatches(task[t].table, e, task[t].text)
                => /\ task[t].command.intent = task[t].table[e].intent
                   /\ task[t].command.confidence = 8

\* C10: a text that matches no pattern, the empty and the whitespace-only
\* text included, is given intent unknown, no entities, confidence 0.0 and no
\* agent, action or parameters by a parse_command without an AI result.
C10_NoMatchIsUnknown ==
    \A t \in Tasks :
        ( /\ task[t].pc = "parsed"
          /\ task[t].ai_result.ty = "none"
          /\ \A e \in 1..Len(task[t].table) :
                ~EntryMatches(task[t].table, e, task[t].text) )
        => task[t].command =
               [raw_text |-> task[t].text, intent |-> "unknown", confidence |-> 0,
                entities |-> PyDict(EmptyDict), agent |-> None, action |-> None,
                parameters |-> PyNone]

\* a whitespace-only text was parsed
C10_Witness ==
    \E t \in Tasks :
        /\ task[t].pc = "parsed"
        /\ task[t].text = ""
        /\ task[t].command.intent = UNKNOWN
        /\ task[t].command.agent = None

(***************************************************************************)
(* Properties of add_custom_pattern                                        *)
(***************************************************************************)
\* the patterns of the table that match the text
MatchingPatterns(table, text) ==
    UNION {{table[e].patterns[k] : k \in {j \in 1..Len(table[e].patterns) :
                                              Search(table[e].patterns[j], text).found}} :
              e \in 1..Len(table)}

\* the add_custom_pattern calls made before task t read the pattern table
CallsBefore(t) == 1..(NumPatterns(task[t].table) - NumPatterns(InitPatterns))

\* call i registered its pattern, a pattern that is no built-in one, and no
\* call before the parse of t registered it under another intent
OnlyUnderItsIntent(t, i) ==
    /\ \A e \in 1..Len(InitPatterns) :
           \A k \in 1..Len(InitPatterns[e].patterns) : InitPatterns[e].patterns[k] # added[i][2]
    /\ \A j \in CallsBefore(t) : added[j][2] = added[i][2] => added[j][1] = added[i][1]

\* C11 as amended: after add_custom_pattern(I, p), whatever calls came before
\* and whether or not I had a pattern list, parse_command on a text whose
\* trimmed, lower-cased form matches p and no pattern registered anywhere
\* else in the table returns intent I.
C11_CustomPatternIntent ==
    \A t \in Tasks :
        HasCommand(t) =>
            \A i \in CallsBefore(t) :
                ( /\ MatchingPatterns(task[t].table, task[t].text) = {added[i][2]}
                  /\ OnlyUnderItsIntent(t, i) )
                => task[t].command.intent = added[i][1]

\* after a shopping pattern, a pattern was registered for the intent unknown,
\* which had no list, and a text that matches it alone was parsed
C11_Witness ==
    \E t \in Tasks :
        /\ task[t].pc = "parsed"
        /\ task[t].table = command_patterns
        /\ added = << <<SHOPPING, CustomShoppingPattern>>, <<UNKNOWN, CustomHomePattern>> >>
        /\ task[t].raw = "deactivate alarm"
        /\ task[t].command.intent = UNKNOWN
        /\ task[t].command.confidence = PATTERN_CONFIDENCE

\* C11 as claimed: after add_custom_pattern(I, p), parse_command on a text
\* that matches p and no pattern registered anywhere else in the table
\* returns intent I.
C11_TextAsGiven ==
    \A t \in Tasks :
        HasCommand(t) =>
            \A i \in CallsBefore(t) :
                ( /\ MatchingPatterns(task[t].table, task[t].raw) = {added[i][2]}
                  /\ OnlyUnderItsIntent(t, i) )
                => task[t].command.intent = added[i][1]

(***************************************************************************)
(* The utterances of the demonstration (demo_pattern_matching)             *)
(***************************************************************************)
\* C12: parse_command("Find me a laptop under 1000 dollars") returns intent
\* shopping, agent ecommerce, action product_search, a query that contains
\* "laptop" and max_price 1000.
C12_SearchWithPriceLimit ==
    \A t \in Tasks :
        (HasCommand(t) /\ task[t].raw = "Find me a laptop under 1000 dollars") =>
            LET c == task[t].command
            IN  /\ c.intent = SHOPPING
                /\ c.agent = "ecommerce"
                /\ c.action = "product_search"
                /\ c.parameters.ty = "dict"
                /\ Contains(c.parameters.v["query"].v, "laptop")
                /\ c.parameters.v["max_price"] = PyNum(1000)

\* C13: parse_command("What's Dutch for hello") with the built-in pattern
\* table and the AI fallback disabled returns intent dutch_learning.
C13_WhatsDutchFor ==
    \A t \in Tasks :
        ( /\ HasCommand(t)
          /\ task[t].raw = "What's Dutch for hello"
          /\ ~task[t].use_ai
          /\ task[t].table = InitPatterns )
        => task[t].command.intent = DUTCH_LEARNING

(***************************************************************************)
(* Properties of the time parser                                           *)
(***************************************************************************)
\* C14: for every hour 1..12, both periods and both forms ("H:MM am/pm" and
\* "Ham/pm"), a day keyword with that clock time gives that day at the hour
\* in 24-hour form (12pm is 12, 1pm is 13, 12am is 0), with the minutes
\* written or 0; "tomorrow at 2pm" is the next day at 14:00.
C14_TwelveHourClock ==
    time_call.pc = "done" =>
        \A day \in {"tomorrow", "today"}, h \in 1..12, per \in {"am", "pm"}, f \in {"H:MM", "H"} :
            time_call.time_str = day \o " at " \o ClockText(h, per, f) =>
                /\ ~time_call.result.raised
                /\ time_call.result.value =
                       [ord    |-> time_call.now.ord + (IF day = "tomorrow" THEN 1 ELSE 0),
                        hour   |-> IF per = "pm" THEN (IF h = 12 THEN 12 ELSE h + 12)
                                   ELSE (IF h = 12 THEN 0 ELSE h),
                        minute |-> IF f = "H:MM" THEN 30 ELSE 0,
                        second |-> 0, microsecond |-> 0]

\* the instant n hours, minutes or days after now
InLater(now, n, unit) ==
    LET Later(dt, days, minutes) ==
            LET total == dt.hour * 60 + dt.minute + minutes
            IN  [dt EXCEPT !.ord = dt.ord + days + total \div 1440,
                           !.hour = (total % 1440) \div 60, !.minute = total % 60]
    IN
    CASE unit = "hour"   -> Later(Later(now, n \div 24, 0), 0, (n % 24) * 60)
      [] unit = "minute" -> Later(Later(now, n \div 1440, 0), 0, n % 1440)
      [] unit = "day"    -> Later(now, n, 0)

\* the time expression has no timestamp, no day keyword and no "in N unit"
NoTimeToken(time_str) ==
    LET x == Strip(Lower(time_str))
    IN  /\ FromIsoFormat(x).raised
        /\ ~Contains(x, "tomorrow") /\ ~Contains(x, "today")
        /\ ~ReSearch(Compile(InPattern), x).found

\* C15 as amended: "in N hours", "in N minutes" and "in N days" give the
\* current instant plus N of that unit for every N >= 0 for which that
\* instant is no later than the last day of datetime (9999-12-31) and an
\* error for a larger N, and a
\* string with no timestamp, no day keyword and no "in N unit" clause gives
\* the current instant plus one hour.
C15_RelativeOffsets ==
    time_call.pc = "done" =>
        /\ \A n \in {0, 2, 90, 4000000, 4000001}, unit \in {"hour", "minute", "day"} :
              ( /\ time_call.time_str = "in " \o IntToStr(n) \o " " \o unit \o "s"
                /\ InLater(time_call.now, n, unit).ord <= 3652059 )
              => time_call.result = Return(InLater(time_call.now, n, unit))
        /\ \A n \in {0, 2, 90, 4000000, 4000001}, unit \in {"hour", "minute", "day"} :
              ( /\ time_call.time_str = "in " \o IntToStr(n) \o " " \o unit \o "s"
                /\ InLater(time_call.now, n, unit).ord > 3652059 )
              => time_call.result.raised
        /\ NoTimeToken(time_call.time_str)
              => time_call.result = Return(InLater(time_call.now, 1, "hour"))

\* half past eleven in the evening plus 90 minutes is one o'clock of the
\* next day
C15_Witness ==
    /\ time_call.pc = "done"
    /\ time_call.time_str = "in 90 minutes"
    /\ time_call.now.hour = 23 /\ time_call.now.minute = 30
    /\ ~time_call.result.raised
    /\ time_call.result.value.ord = time_call.now.ord + 1
    /\ time_call.result.value.hour = 1
    /\ time_call.result.value.minute = 0

\* C15 as claimed: "in N hours", "in N minutes" and "in N days" give the
\* current instant plus N of that unit for every N >= 0, and a string with
\* no timestamp, no day keyword and no "in N unit" clause gives the current
\* instant plus one hour.
C15_EveryOffset ==
    time_call.pc = "done" =>
        /\ \A n \in {0, 2, 90, 4000000, 4000001}, unit \in {"hour", "minute", "day"} :
              time_call.time_str = "in " \o IntToStr(n) \o " " \o unit \o "s"
              => time_call.result = Return(InLater(time_call.now, n, unit))
        /\ NoTimeToken(time_call.time_str)
              => time_call.result = Return(InLater(time_call.now, 1, "hour"))

(***************************************************************************)
(* Properties of MCPServer.execute_command                                 *)
(***************************************************************************)
\* this step is a call of MCPServer.execute_command, up to its first await
McpCallStep == mcp_call.pc # "handler_wait" /\ mcp_call' # mcp_call

\* C16: MCPServer.execute_command never raises: for a name that is not
\* registered it returns {success: false, error: "Tool '<name>' not found"}
\* without invoking any handler, and when a registered handler raises it
\* returns {success: false, error: <error text>}.
C16_DispatchNeverRaises ==
    [][/\ mcp_call'.pc # "raised"
       /\ \A name \in {"camera_capture", "control_device", "Camera_Capture"} :
              ( /\ McpCallStep
                /\ mcp_call'.command.ty = "dict"
                /\ DictGet(mcp_call'.command, "tool", PyNone) = PyStr(name)
                /\ name \notin tools )
              => /\ mcp_call'.pc = "done"
                 /\ mcp_call'.result =
                        PyDict("success" :> PyBool(FALSE) @@
                               "error" :> PyStr("Tool '" \o name \o "' not found"))
                 /\ handler_calls' = handler_calls
       /\ (mcp_call.pc = "handler_wait" /\ mcp_call' # mcp_call /\ mcp_call'.outcome.raised)
              => /\ mcp_call'.pc = "done"
                 /\ mcp_call'.result =
                        PyDict("success" :> PyBool(FALSE) @@
                               "error" :> PyStr(mcp_call'.outcome.value))]_vars

\* the handler of a tool registered after construction raised and the call
\* returned the failure
C16_Witness ==
    /\ mcp_call.pc = "done"
    /\ mcp_call.tool = "control_device"
    /\ mcp_call.outcome = Raise("Command failed: no cameras available")
    /\ mcp_call.result.v["success"] = PyBool(FALSE)
    /\ handler_calls["control_device"] = 1

\* C17: each call of MCPServer.execute_command invokes the handler of the
\* named tool at most once and no other handler, and each execute_command
\* call of the router issues at most one dispatch call; nothing is retried or
\* deduplicated, so k dispatches of the same tool invoke its handler exactly
\* k times.
C17_OneInvocationPerDispatch ==
    [][/\ \A n \in tools' :
              handler_calls'[n] =
                  (IF n \in tools THEN handler_calls[n] ELSE 0)
                  + (IF /\ McpCallStep
                        /\ mcp_call'.command.ty = "dict"
                        /\ DictGet(mcp_call'.command, "tool", PyNone) = PyStr(n)
                        /\ n \in tools
                     THEN 1 ELSE 0)
       /\ \A t \in Tasks :
              /\ task'[t].dispatches <= 1
              /\ task'[t].dispatches > task[t].dispatches
                     => task[t].pc = "parsed" /\ task'[t].pc = "dispatch_wait"]_vars

\* the same tool was dispatched MaxCalls times, its handler raising the last
\* time, and an execute_command call of the router has issued its dispatch
C17_Witness ==
    /\ mcp_call.pc = "done"
    /\ mcp_call.tool = "camera_capture"
    /\ mcp_call.outcome.raised
    /\ handler_calls["camera_capture"] = MaxCalls
    /\ \E t \in Tasks : task[t].pc = "done" /\ task[t].dispatches = 1

(***************************************************************************)
(* Properties of process_voice_input                                       *)
(***************************************************************************)
\* C18: process_voice_input runs recognize, then parse_command, then
\* execute_command, then TTS speak, each at most once and in that order, and
\* never raises; when recognition yields no text it returns success=false with
\* "I didn't catch that. Could you repeat?" and performs no parse, no
\* dispatch, no history append and no TTS call.
C18_PipelineOrder ==
    [][/\ voice'.pc # "raised"
       /\ voice'.pc # "idle" =>
              /\ \E n \in 1..4 :
                     voice'.calls =
                         SubSeq(<< "recognize", "parse_command", "execute_command", "speak" >>,
                                1, n)
              /\ voice'.pc = "done" => voice'.response # NoResponse
              /\ task'[voice'.t].dispatches <= 1
       /\ ( /\ voice.pc = "recognize_wait"
            /\ voice' # voice
            /\ ~voice'.text.raised
            /\ voice'.text.value \in {PyStr(""), PyNone} )
          => /\ voice'.pc = "done"
             /\ voice'.response =
                    [success |-> FALSE, speak |-> TRUE, data |-> PyNone,
                     message |-> "I didn't catch that. Could you repeat?"]
             /\ voice'.calls = << "recognize" >>
             /\ task' = task
             /\ command_history' = command_history
             /\ command_history' = voice'.history]_vars

\* after an earlier run left an entry in the history, a run in which
\* nothing was recognized has returned
C18_Witness ==
    /\ voice.pc = "done"
    /\ voice.text = Return(PyStr(""))
    /\ voice.calls = << "recognize" >>
    /\ voice.response.message = "I didn't catch that. Could you repeat?"
    /\ command_history # <<>>
    /\ voice.history = command_history

(***************************************************************************)
(* Properties of the AI fallback and of the order of the patterns          *)
(***************************************************************************)
\* C19: for every response the chat collaborator can give in the AI
\* fallback, JSON with an intent outside the enumeration or with a missing
\* or wrongly typed intent or confidence included, parse_command returns a
\* VoiceCommand whose intent is one of the seven enumerated intents; an
\* unusable AI result leaves the pattern-match result standing and is never
\* propagated as an error.
C19_AiAnswerNeverPropagates ==
    \A t \in Tasks :
        task[t].chat # "none" =>
            /\ task[t].pc = "parsed"
            /\ task[t].command.intent \in CommandIntent
            /\ ( \/ task[t].ai_result.ty # "dict"
                 \/ DictGet(task[t].ai_result, "intent", PyNone) \notin
                        { PyStr(i) : i \in CommandIntent } )
               => /\ task[t].command.intent = task[t].pm.intent
                  /\ task[t].command.confidence = task[t].pm.confidence

\* C20: when a text matches patterns of several intents, the pattern matcher
\* returns the intent that comes first in the pattern table's insertion order
\* (shopping, home_automation, dutch_learning, information, camera,
\* system_control, then intents added later), with the entities captured by
\* that intent's first matching pattern; a later match never replaces an
\* earlier one.
C20_FirstInInsertionOrder ==
    \A t \in Tasks :
        task[t].pc # "idle" =>
            /\ \A e \in 1..6 :
                   task[t].table[e].intent =
                       << SHOPPING, HOME_AUTOMATION, DUTCH_LEARNING, INFORMATION, CAMERA,
                          SYSTEM_CONTROL >>[e]
            /\ \A e \in 1..Len(task[t].table) :
                   \A k \in 1..Len(task[t].table[e].patterns) :
                       ( /\ Search(task[t].table[e].patterns[k], task[t].text).found
                         /\ \A j \in 1..(k - 1) :
                                ~Search(task[t].table[e].patterns[j], task[t].text).found
                         /\ \A d \in 1..(e - 1) : ~EntryMatches(task[t].table, d, task[t].text) )
                       => task[t].pm =
                              [intent     |-> task[t].table[e].intent,
                               entities   |-> PyDict(Entities(
                                   Search(task[t].table[e].patterns[k], task[t].text).groups)),
                               confidence |-> 8]

\* a text matched a pattern of shopping and a pattern of dutch_learning that
\* captures something else, in a table that holds an intent added later; the
\* matcher returned shopping with what the shopping pattern captured
C20_Witness ==
    \E t \in Tasks :
        /\ task[t].pc = "parsed"
        /\ task[t].pm.intent = SHOPPING
        /\ task[t].pm.entities = PyDict("group_0" :> PyStr("t"))
        /\ Len(task[t].table) = 7
        /\ \E e \in 1..Len(task[t].table), k \in 1..3 :
              /\ task[t].table[e].intent = DUTCH_LEARNING
              /\ Search(task[t].table[e].patterns[k], task[t].text).found
              /\ PyDict(Entities(Search(task[t].table[e].patterns[k], task[t].text).groups))
                     # task[t].pm.entities

(***************************************************************************)
(* Properties of the AI fallback call                                      *)
(***************************************************************************)
\* C21: within one parse_command call the AI fallback classifier is called at
\* most once, after the pattern matcher, and only when the pattern confidence
\* is below 0.7; it is never called for a text that matches any pattern, nor
\* when use_ai is false or no AI service is attached.
C21_AiCalledAtMostOnce ==
    [][\A t \in Tasks :
          /\ task'[t].ai_calls <= 1
          /\ (task[t].pc = "ai_wait" /\ task'[t].pc \in {"parsed", "raised"})
                 => task'[t].ai_calls = task[t].ai_calls
          /\ (~Suspended(t) /\ task'[t] # task[t] /\ task'[t].pc \in {"ai_wait", "parsed"})
                 => /\ task'[t].ai_calls = 1 <=> task'[t].pc = "ai_wait"
                    /\ task'[t].ai_calls = 1 => 10 * task'[t].pm.confidence < 70
                    /\ ( \/ ~task'[t].use_ai
                         \/ ai_service = None
                         \/ \E e \in 1..Len(command_patterns) :
                                EntryMatches(command_patterns, e, task'[t].text) )
                       => task'[t].ai_calls = 0 /\ task'[t].chat = "none"]_vars

\* the AI was asked once about a text that matches no pattern, and its answer
\* was adopted
C21_Witness ==
    \E t \in Tasks :
        /\ task[t].pc = "parsed"
        /\ task[t].ai_calls = 1
        /\ task[t].pm.confidence = 0
        /\ task[t].chat = "json"
        /\ task[t].command.intent # task[t].pm.intent

(***************************************************************************)
(* Properties of interleaved and cancelled pipelines                       *)
(***************************************************************************)
\* C22: if an in-flight execute_command is cancelled while its tool dispatch
\* is pending, nothing is appended to the command history for that utterance:
\* neither the call's start nor its cancellation changes the history, and the
\* call ends without a result or a response.
C22_CancelledAppendsNothing ==
    [][\A t \in Tasks :
          /\ (task[t].pc = "parsed" /\ task'[t].pc = "dispatch_wait")
                 => command_history' = command_history
          /\ (task[t].pc = "dispatch_wait" /\ task'[t].pc = "cancelled")
                 => /\ command_history' = command_history
                    /\ task'[t].result = NoResult
                    /\ task'[t].response = NoResponse
          /\ (task[t].pc = "cancelled" /\ task'[t].pc = "cancelled")
                 => task'[t] = task[t]]_vars

\* a dispatch was cancelled while the history held the entry of the other
\* caller, and nothing else
C22_Witness ==
    \E t \in Tasks :
        /\ task[t].pc = "cancelled"
        /\ task[t].command.action = "control_device"
        /\ Len(command_history) = 1
        /\ \E u \in Tasks \ {t} :
              /\ task[u].pc = "done"
              /\ command_history[1].command = task[u].command.raw_text
              /\ command_history[1].intent = CAMERA

\* C23: when several parse_command/execute_command pipelines interleave on
\* one router at the AI fallback call and the tool dispatch call, each
\* pipeline works on its own VoiceCommand, no history entry is lost or
\* duplicated, and every history entry's raw_text, intent and result come
\* from the same utterance.
C23_PipelinesKeepApart ==
    [][/\ \A t \in Tasks :
              /\ task'[t] # task[t] => \A u \in Tasks \ {t} : task'[u] = task[u]
              /\ ( /\ task[t].pc \in {"parsed", "dispatch_wait"}
                   /\ task'[t].pc \in {"dispatch_wait", "done", "cancelled"} )
                 => task'[t].command = task[t].command
              /\ task'[t].pc \in {"parsed", "dispatch_wait", "done", "cancelled"}
                     => task'[t].command.raw_text = task'[t].text
              /\ ( /\ task[t].pc = "dispatch_wait"
                   /\ task'[t].pc = "done"
                   /\ task'[t].response.success )
                 => command_history' =
                        Append(command_history,
                               [command |-> task[t].command.raw_text,
                                intent  |-> task[t].command.intent,
                                result  |-> task'[t].result.value])
       /\ command_history' # command_history
              => \E t \in Tasks : /\ task[t].pc = "dispatch_wait"
                                  /\ task'[t].pc = "done"
                                  /\ task'[t].response.success]_vars

\* two callers have finished, one of them through the AI fallback; the
\* history holds one entry for each, the second caller's first, each with
\* the text, intent and result of its own utterance
C23_Witness ==
    /\ task[1].pc = "done" /\ task[2].pc = "done"
    /\ task[1].chat = "json" /\ task[2].chat = "none"
    /\ Len(command_history) = 2
    /\ command_history[1] =
           [command |-> "turn on the lights", intent |-> HOME_AUTOMATION,
            result |-> task[2].result.value]
    /\ command_history[2] =
           [command |-> "what's dutch for hello", intent |-> CAMERA,
            result |-> task[1].result.value]

(***************************************************************************)
(* Properties of _map_to_agent                                             *)
(***************************************************************************)
\* C24: every VoiceCommand with intent shopping gets agent ecommerce and
\* exactly one of the actions price_compare, view_cart, add_to_cart,
\* product_search, chosen by keywords of the raw text in this priority:
\* "compare" or "price" gives price_compare; else "cart" with "show" or "view"
\* gives view_cart; else "cart" gives add_to_cart; else product_search.
C24_ShoppingActionPriority ==
    \A t \in Tasks :
        (HasCommand(t) /\ task[t].command.intent = SHOPPING) =>
            LET raw == task[t].command.raw_text
            IN  /\ task[t].command.agent = "ecommerce"
                /\ task[t].command.action =
                       IF Contains(raw, "compare") \/ Contains(raw, "price")
                       THEN "price_compare"
                       ELSE IF Contains(raw, "cart")
                                /\ (Contains(raw, "show") \/ Contains(raw, "view"))
                       THEN "view_cart"
                       ELSE IF Contains(raw, "cart") THEN "add_to_cart"
                       ELSE "product_search"

\* C25: for every information-intent command whose text contains one of the
\* keywords calendar, schedule, event or meeting together with add, create or
\* schedule, the mapping step sets action calendar_create_event with
\* duration_minutes 60, title from the captured entity, and start_time equal
\* to the captured time entity or to "tomorrow at 2pm" when none was captured.
C25_CalendarCreateEvent ==
    \A t \in Tasks :
        LET raw == task[t].command.raw_text
        IN  ( /\ HasCommand(t)
              /\ task[t].command.intent = INFORMATION
              /\ \E k \in {"calendar", "schedule", "event", "meeting"} : Contains(raw, k)
              /\ \E k \in {"add", "create", "schedule"} : Contains(raw, k) )
            => /\ task[t].command.action = "calendar_create_event"
               /\ task[t].command.parameters =
                      PyDict("title" :> DictGet(task[t].command.entities, "group_0", PyStr(""))
                             @@ "start_time" :> DictGet(task[t].command.entities, "group_1",
                                                        PyStr("tomorrow at 2pm"))
                             @@ "duration_minutes" :> PyNum(60))

(***************************************************************************)
(* Properties of the day keywords of _parse_time                           *)
(***************************************************************************)
\* C26: when a time expression contains a day keyword ("today" or
\* "tomorrow") and no clock time, the time-expression parser returns that day
\* at 09:00.
C26_DayKeywordAtNine ==
    time_call.pc = "done" =>
        \A day \in {"tomorrow", "today"} :
            time_call.time_str = day =>
                time_call.result =
                    Return([ord    |-> time_call.now.ord + (IF day = "tomorrow" THEN 1 ELSE 0),
                            hour   |-> 9, minute |-> 0, second |-> 0, microsecond |-> 0])

(***************************************************************************)
(* Properties of _format_response                                          *)
(***************************************************************************)
\* C27: the response-formatting step is total: for every (intent, action)
\* pair the mapping step can produce and every tool result, results whose
\* list items lack expected fields included, it yields a message, so
\* execute_command still returns success=true.
C27_FormatIsTotal ==
    \A t \in Tasks :
        ( /\ task[t].pc = "done"
          /\ task[t].result # NoResult
          /\ ~task[t].result.raised
          /\ task[t].result.value.ty = "dict" )
        => /\ ~FormatResponse(task[t].command, task[t].result.value).raised
           /\ task[t].response.success

(***************************************************************************)
(* Properties of the VoiceCommand returned by parse_command                *)
(***************************************************************************)
\* C28: every VoiceCommand returned by parse_command has a confidence in
\* [0,1], whatever confidence value the AI fallback reports.
C28_ConfidenceInUnitInterval ==
    \A t \in Tasks :
        task[t].pc = "parsed" =>
            /\ task[t].command.confidence >= 0
            /\ task[t].command.confidence <= 10

\* C29: for every VoiceCommand returned by parse_command, agent, action and
\* parameters are set together: whenever agent is present, action names a
\* tool and parameters is a mapping, so execute_command never dispatches an
\* absent action.
C29_AgentActionTogether ==
    \A t \in Tasks :
        /\ (task[t].pc = "parsed" /\ task[t].command.agent # None)
               => /\ task[t].command.action # None
                  /\ task[t].command.parameters.ty = "dict"
        /\ task[t].pc = "dispatch_wait" => task[t].command.action # None

(***************************************************************************)
(* Properties of get_command_history                                       *)
(***************************************************************************)
\* C30: get_command_history(limit) returns, for every limit >= 0 and every
\* history length n, the most recent min(limit, n) history entries in
\* insertion order, and does not change the history.
C30_MostRecentEntries ==
    (history_call.pc = "done" /\ history_call.limit >= 0) =>
        LET n == Len(history_call.history)
            k == IF history_call.limit < n THEN history_call.limit ELSE n
        IN  /\ history_call.result = SubSeq(history_call.history, n - k + 1, n)
            /\ SubSeq(command_history, 1, n) = history_call.history

==============================================================================
